---- MODULE Spec2Model ----
(***************************************************************************)
(* Model of the deployment engine of aws-elasticbeanstalk-deploy:          *)
(*   - retryWithBackoff                  (src/src/aws-operations.ts)       *)
(*   - describeRecentEvents and the two watchers, waitForDeploymentCompletion *)
(*     and waitForHealthRecovery         (src/src/monitoring.ts, and the   *)
(*     variant of the same file that threads lastSeenEventDate,            *)
(*     src/unnamed/part_002)                                               *)
(* Times are in milliseconds, as in the code (Date.now(), setTimeout).     *)
(***************************************************************************)
EXTENDS Integers, Sequences, FiniteSets, TLC

\* JavaScript's undefined: an unset variable, a missing field, a void result.
Undef == "undefined"

(***************************************************************************)
(* Bounds of the model.                                                    *)
(***************************************************************************)
\* largest maxRetries tried (validation admits 0..10)
MaxRetriesTried == 4
\* largest retryDelay tried, in seconds (validation admits 1..60)
MaxDelayTried == 2
\* longest DescribeEvents feed the platform answers with
MaxFeedLen == 2
\* largest event timestamp the platform stamps on an event
MaxEventDate == 2
\* the same two bounds for describeRecentEvents called on its own
MaxTailFeedLen == 3
MaxTailDate == 3
\* the longest option-settings array tried
MaxSettings == 2
\* the number of runs of the version phase on one platform, and the largest
\* maxRetries they are given
MaxRuns == 2
MaxPhaseRetries == 2

VARIABLES
    \* ---- retryWithBackoff ----
    rPc,          \* "loop" | "returned" | "thrown"
    maxRetries,   \* parameter
    retryDelay,   \* parameter (seconds)
    plan,         \* what fn does on its i-th invocation (a scripted mock)
    attempt,      \* the loop variable
    calls,        \* number of invocations of fn so far
    lastError,    \* message of the last caught error, or Undef
    sleeps,       \* the backoff sleeps taken: <<[after, ms]>>
    warnings,     \* the core.warning lines emitted: <<[attempt, of, delay]>>
    rResult,      \* the value returned, or Undef
    rThrown,      \* the message of the Error thrown, or Undef
    \* ---- the platform ----
    pFeed,        \* the events DescribeEvents has to show at the last turn of a loop
    \* ---- waitForDeploymentCompletion ----
    dPc,          \* "off" | "poll" | "returned" | "thrown"
    dTimeout,     \* parameter timeout (seconds)
    dAction,      \* parameter deploymentActionType: "create" | "update" | Undef
    dNow,         \* Date.now() - startTime (ms)
    dPrevStatus,  \* previousStatus
    dLastSeen,    \* lastSeenEventDate (the variant that keeps one), else NoDate
    dPolls,       \* DescribeEnvironments queries sent
    dFetched,     \* calls of describeRecentEvents in the last turn of the loop
    dFetchThrew,  \* whether the DescribeEvents query of that call threw
    dResp,        \* the answer to the last DescribeEnvironments query
    dLog,         \* the core.info lines of the watcher's own body
    dResult,      \* the value the promise resolved with
    dThrown,      \* the message of the Error thrown, or <<>>
    \* ---- waitForHealthRecovery ----
    hPc,          \* "off" | "poll" | "returned" | "thrown"
    hTimeout,     \* parameter timeout (seconds)
    hNow,         \* Date.now() - startTime (ms)
    hPrevStatus,  \* previousStatus
    hPrevHealth,  \* previousHealth
    hLastSeen,    \* lastSeenEventDate (the variant that keeps one), else NoDate
    hPolls,       \* DescribeEnvironments queries sent
    hFetched,     \* calls of describeRecentEvents in the last turn of the loop
    hFetchThrew,  \* whether the DescribeEvents query of that call threw
    hResp,        \* the answer to the last DescribeEnvironments query
    hThrown,      \* the message of the Error thrown, or <<>>
    \* ---- history, kept for the properties only ----
    dSeen,        \* the Status of every answer the deployment watcher got, in order
    dReported,    \* the events the deployment watcher's describeRecentEvents logged
    hReported,    \* the events the health watcher's describeRecentEvents logged
    \* ---- describeRecentEvents, called on its own ----
    tPc,          \* "off" | "called" | "returned"
    tGiven,       \* the lastSeenEventDate the call is given
    tMark,        \* the lastSeenEventDate the caller keeps after the call
    tThrew,       \* whether the DescribeEvents query of the call threw
    tOut,         \* what the last call returned, and the events it logged
    \* ---- environmentExists, applicationVersionExists, getVersionS3Location ----
    ePc,          \* "off" | "called" | "returned", and for the version functions
                  \* "calledVersion" | "returnedExists" | "calledLocation" | "returnedLocation"
    eName,        \* parameter environmentName, or versionLabel
    eAnswer,      \* the answer to the DescribeEnvironments query
    eOut,         \* the value returned
    eLog,         \* the core.info / core.warning line written
    \* ---- the operations of aws-operations.ts that send commands ----
    oPc,          \* "off" | "called" | "probe" | "lookup" | "retrying" | "returned"
                  \* | "thrown"
    oOp,          \* the function called
    oIn,          \* its parameters
    oWorld,       \* what the platform answers to the unretried queries
    oSent,        \* the commands sent before the current retryWithBackoff
    oCommand,     \* the command the current retryWithBackoff sends at each attempt
    oOut,         \* the value returned
    oThrown,      \* the message of the Error thrown, or <<>>
    \* ---- the version phase, run more than once on one platform ----
    vPc,          \* "off" | "start" | "uploading" | "creating" | "done"
    vIn,          \* the inputs of the runs
    vStore,       \* the platform: the application version of the label, the bucket
    vRuns         \* what each finished run did

retryVars == <<rPc, maxRetries, retryDelay, plan, attempt, calls, lastError,
               sleeps, warnings, rResult, rThrown>>

deployVars == <<dPc, dTimeout, dAction, dNow, dPrevStatus, dLastSeen, dPolls,
                dFetched, dFetchThrew, dResp, dLog, dResult, dThrown>>

healthVars == <<hPc, hTimeout, hNow, hPrevStatus, hPrevHealth, hLastSeen, hPolls,
                hFetched, hFetchThrew, hResp, hThrown>>

histVars == <<dSeen, dReported, hReported>>

tailVars == <<tPc, tGiven, tMark, tThrew, tOut>>

existsVars == <<ePc, eName, eAnswer, eOut, eLog>>

opVars == <<oPc, oOp, oIn, oWorld, oSent, oCommand, oOut, oThrown>>

phaseVars == <<vPc, vIn, vStore, vRuns>>

\* the functions the model calls on their own
callVars == <<tailVars, existsVars, opVars, phaseVars>>

vars == <<retryVars, pFeed, deployVars, healthVars, histVars, callVars>>

(***************************************************************************)
(* retryWithBackoff                                                        *)
(***************************************************************************)
\* the operationName each function of aws-operations.ts gives retryWithBackoff
\* for the command it wraps
OperationNames ==
    [CreateBucket |-> "Create S3 bucket", PutObject |-> "Upload to S3",
     CreateApplicationVersion |-> "Create application version",
     UpdateEnvironment |-> "Update environment",
     CreateEnvironment |-> "Create environment"]

\* parameter operationName
OperationName == IF oPc = "off" THEN "op" ELSE OperationNames[oCommand.name]
ErrorMessages == {"AccessDenied", "Throttled"}
ResultValues == {"r1", "r2"}

\* One invocation of fn either resolves with a value or rejects with an Error.
Outcomes == [ok : {TRUE}, value : ResultValues] \cup [ok : {FALSE}, message : ErrorMessages]

\* The scripts of fn: its outcome on each of its first MaxRetriesTried invocations.
Plans == [1..MaxRetriesTried -> Outcomes]

\* (for C3) the exponent is the attempt, not the attempt minus one
BackoffDelayFromTwo(delay, k) == delay * 2^k

\* const delay = retryDelay * Math.pow(2, attempt - 1)
BackoffDelay(delay, k) == delay * 2^(k - 1)

\* (for C2) the message reports the retries after the first attempt
ExhaustedMessageRetries(name, n, cause) == <<name, "failed after", n - 1, "attempts:", cause>>

\* `${operationName} failed after ${maxRetries} attempts: ${lastError?.message}`
ExhaustedMessage(name, n, cause) == <<name, "failed after", n, "attempts:", cause>>

\* (for C31) the body runs once before the test, as in a do-while
LoopConditionDoWhile == attempt <= maxRetries \/ attempt = 1

\* (for C1) the loop stops one attempt early
LoopConditionStrict == attempt < maxRetries

\* for (let attempt = 1; attempt <= maxRetries; attempt++)
LoopCondition == attempt <= maxRetries

RetryInit ==
    /\ rPc = "loop"
    /\ maxRetries \in 0..MaxRetriesTried
    /\ retryDelay \in 1..MaxDelayTried
    /\ plan \in Plans
    /\ attempt = 1
    /\ calls = 0
    /\ lastError = Undef
    /\ sleeps = <<>>
    /\ warnings = <<>>
    /\ rResult = Undef
    /\ rThrown = <<>>

\* (for C38) a warning and a sleep follow the last failed attempt as well
WaitsBeforeRetryAlways == TRUE

\* if (attempt < maxRetries) { warning; sleep }
WaitsBeforeRetry == attempt < maxRetries

\* try { return await fn(); }
AttemptSucceeds ==
    /\ rPc = "loop"
    /\ LoopCondition
    /\ plan[calls + 1].ok
    /\ calls' = calls + 1
    /\ rResult' = plan[calls + 1].value
    /\ rPc' = "returned"
    /\ UNCHANGED <<maxRetries, retryDelay, plan, attempt, lastError, sleeps,
                   warnings, rThrown>>
    /\ UNCHANGED <<pFeed, deployVars, healthVars, histVars, callVars>>

\* catch (error) { lastError = error; if (attempt < maxRetries) { warn; sleep } }
\* followed by attempt++
AttemptFails ==
    /\ rPc = "loop"
    /\ LoopCondition
    /\ ~plan[calls + 1].ok
    /\ calls' = calls + 1
    /\ lastError' = plan[calls + 1].message
    /\ IF WaitsBeforeRetry
         THEN /\ warnings' = Append(warnings,
                     [attempt |-> attempt, of |-> maxRetries,
                      delay |-> BackoffDelay(retryDelay, attempt)])
              /\ sleeps' = Append(sleeps,
                     [after |-> attempt,
                      ms |-> BackoffDelay(retryDelay, attempt) * 1000])
         ELSE UNCHANGED <<warnings, sleeps>>
    /\ attempt' = attempt + 1
    /\ UNCHANGED <<rPc, maxRetries, retryDelay, plan, rResult, rThrown>>
    /\ UNCHANGED <<pFeed, deployVars, healthVars, histVars, callVars>>

\* the loop is left without a return: core.error(errorMessage); throw new Error(errorMessage)
Exhausted ==
    /\ rPc = "loop"
    /\ ~LoopCondition
    /\ rThrown' = ExhaustedMessage(OperationName, maxRetries, lastError)
    /\ rPc' = "thrown"
    /\ UNCHANGED <<maxRetries, retryDelay, plan, attempt, calls, lastError,
                   sleeps, warnings, rResult>>
    /\ UNCHANGED <<pFeed, deployVars, healthVars, histVars, callVars>>

RetryNext ==
    \/ AttemptSucceeds
    \/ AttemptFails
    \/ Exhausted

\* the state of retryWithBackoff while it is not the operation under study
RetryOff ==
    /\ rPc = "off"
    /\ maxRetries = 0
    /\ retryDelay = 1
    /\ plan = <<>>
    /\ attempt = 1
    /\ calls = 0
    /\ lastError = Undef
    /\ sleeps = <<>>
    /\ warnings = <<>>
    /\ rResult = Undef
    /\ rThrown = <<>>

(***************************************************************************)
(* The platform, as the watchers see it.                                   *)
(***************************************************************************)
\* an event without EventDate, a lastSeenEventDate that is still undefined,
\* the value of a promise that resolves with nothing
NoDate == 0

Statuses == {"Launching", "Updating", "Ready"}
Healths == {"Green", "Yellow", "Red", "Grey", Undef}

\* the events with the given dates, severities and messages
EventsOf(dates, severities, messages) ==
    [EventDate : dates, Severity : severities, Message : messages]

\* response.Events of DescribeEvents (MaxRecords: 10); the model keeps to
\* feeds of at most MaxFeedLen of the given events
FeedsOf(events) == UNION {[1..n -> events] : n \in 0..MaxFeedLen}

\* what `await send(new DescribeEventsCommand(..))` does: it throws, or it
\* resolves with the platform's feed (an absent Events field is the empty feed)
EventAnswer(threw, feed) == [throws |-> threw, Events |-> IF threw THEN <<>> ELSE feed]

\* the platform of the runs of monitoring.ts, which never reads EventDate: one
\* event of each severity, each with a message of its own
PlainEvents ==
    {[EventDate |-> 1, Severity |-> "INFO", Message |-> "m-info"],
     [EventDate |-> 1, Severity |-> "WARN", Message |-> "m-warn"],
     [EventDate |-> 1, Severity |-> "ERROR", Message |-> "m-error"],
     [EventDate |-> 1, Severity |-> "FATAL", Message |-> "m-fatal"]}
PlainFeeds == FeedsOf(PlainEvents)
\* a platform with no events at all
QuietFeeds == {<<>>}

\* what `await send(new DescribeEnvironmentsCommand(..))` does: it throws, or
\* it resolves with no environment, or with Environments[0]
AbsentAnswer == [throws |-> FALSE, present |-> FALSE, Status |-> Undef, Health |-> Undef]
ThrowingAnswer == [throws |-> TRUE, present |-> FALSE, Status |-> Undef, Health |-> Undef]
\* the deployment watcher reads Status alone
StatusAnswers ==
    [throws : {FALSE}, present : {TRUE}, Status : Statuses, Health : {Undef}]
        \cup {AbsentAnswer, ThrowingAnswer}
\* the health watcher reads Health, and of Status whether it is 'Ready'
EnvAnswers ==
    [throws : {FALSE}, present : {TRUE}, Status : {"Updating", "Ready"}, Health : Healths]
        \cup {AbsentAnswer, ThrowingAnswer}

\* the time the remote calls of one turn of a polling loop take (ms)
CallLatencies == {0, 10000}

\* the least deployment-timeout validateNumericInputs lets through (seconds)
MinTimeout == 60

(***************************************************************************)
(* describeRecentEvents (src/src/monitoring.ts)                            *)
(***************************************************************************)
\* const severity = event.Severity || 'INFO'
SeverityOf(e) == IF e.Severity = Undef THEN "INFO" ELSE e.Severity

\* const message = event.Message || 'No message'
MessageOf(e) == IF e.Message = Undef THEN "No message" ELSE e.Message

\* (for C19) a WARN event counts as well
IsFatalOrErrorOrWarn(e) == SeverityOf(e) \in {"ERROR", "FATAL", "WARN"}

\* if (severity === 'ERROR' || severity === 'FATAL')
IsFatalOrError(e) == SeverityOf(e) \in {"ERROR", "FATAL"}

\* the line logged for one event: core.error / core.warning / core.info of
\* `  [${timestamp}] ${severity}: ${message}` (NoDate prints 'Unknown time')
EventLine(e) ==
    [level |-> IF IsFatalOrError(e) THEN "error"
               ELSE IF SeverityOf(e) = "WARN" THEN "warning" ELSE "info",
     timestamp |-> e.EventDate,
     severity |-> SeverityOf(e),
     message |-> MessageOf(e)]

\* (for C5) the message of the last fatal/error event is reported
FirstFatalOrErrorLast(events) ==
    LET fatalOrErrorEvents == SelectSeq(events, IsFatalOrError)
    IN  fatalOrErrorEvents[Len(fatalOrErrorEvents)]

\* fatalOrErrorEvents[0], for a feed that holds a fatal/error event
FirstFatalOrError(events) == SelectSeq(events, IsFatalOrError)[1]

\* (for C36) only the events stamped with the latest date the platform knows
\* are looked at: older ones, and those without a date, are taken to belong
\* to an earlier deployment
describeRecentEventsLatestOnly(answer) ==
    LET Latest(e) == e.EventDate = MaxEventDate
        events == IF answer.throws THEN <<>> ELSE SelectSeq(answer.Events, Latest)
    IN  IF Len(SelectSeq(events, IsFatalOrError)) > 0
          THEN [hasError |-> TRUE,
                errorMessage |-> MessageOf(SelectSeq(events, IsFatalOrError)[1]),
                logged |-> events]
          ELSE [hasError |-> FALSE, errorMessage |-> Undef, logged |-> events]

\* the outcome of one call: {hasError, errorMessage}, and the events logged
describeRecentEvents(answer) ==
    IF answer.throws
      THEN [hasError |-> FALSE, errorMessage |-> Undef, logged |-> <<>>]
      ELSE IF Len(answer.Events) > 0
        THEN IF Len(SelectSeq(answer.Events, IsFatalOrError)) > 0
               THEN [hasError |-> TRUE,
                     errorMessage |-> MessageOf(FirstFatalOrError(answer.Events)),
                     logged |-> answer.Events]
               ELSE [hasError |-> FALSE, errorMessage |-> Undef,
                     logged |-> answer.Events]
        ELSE [hasError |-> FALSE, errorMessage |-> Undef, logged |-> <<>>]

(***************************************************************************)
(* waitForDeploymentCompletion (src/src/monitoring.ts)                     *)
(***************************************************************************)
WaitingLine == "Waiting for deployment to complete..."
CompleteLine == "Deployment complete"
\* core.info(`Current status: ${status}`)
StatusLine(status) == "Current status: " \o status

\* `Environment deployment failed - fatal or error event detected: ${errorMessage}`
FailedEventError(message) ==
    <<"Environment deployment failed - fatal or error event detected:", message>>
\* `Deployment timed out after ${timeout}s`
DeploymentTimeoutError(timeout) == <<"Deployment timed out after", timeout, "s">>
\* the rejection of an awaited DescribeEnvironments call, which the watcher lets through
SdkError == <<"DescribeEnvironments failed">>

\* (for C37) the watcher sleeps half as long between two polls
PollIntervalHalved(action) == IF action = "create" THEN 10000 ELSE 5000

\* const pollInterval = deploymentActionType === 'create' ? 20000 : 10000
PollInterval(action) == IF action = "create" THEN 20000 ELSE 10000

\* while (Date.now() - startTime < maxWait), maxWait = timeout * 1000
DeployLoopCondition == dNow < dTimeout * 1000

\* (for C40) an answer without an environment is read like one with it
HasEnvironmentAlways(resp) == TRUE

\* if (response.Environments && response.Environments.length > 0)
HasEnvironment(resp) == resp.present

\* (for C39) any status but 'Updating' ends the wait
StatusIsNotUpdating(status) == status # "Updating"

\* (for C4) the comparison misses the status
StatusIsReadyNever(status) == status = "ready"

\* if (status === 'Ready')
StatusIsReady(status) == status = "Ready"

\* (for C7) the status is logged on every turn
StatusChangedAlways(status, previous) == TRUE

\* if (status !== previousStatus)
StatusChanged(status, previous) == status # previous

\* (for C6) the final fetch decides the error
TimeoutThrowsEvent(timeout, eventCheck) ==
    IF eventCheck.hasError
      THEN FailedEventError(eventCheck.errorMessage)
      ELSE DeploymentTimeoutError(timeout)

\* await describeRecentEvents(..); throw new Error(`Deployment timed out after ${timeout}s`)
TimeoutThrows(timeout, eventCheck) == DeploymentTimeoutError(timeout)

DeployInit ==
    /\ pFeed = <<>>
    /\ dPc = "poll"
    /\ dTimeout = MinTimeout
    /\ dAction \in {"create", "update", Undef}
    /\ dNow = 0
    /\ dPrevStatus = Undef
    /\ dLastSeen = NoDate
    /\ dPolls = 0
    /\ dFetched = 0
    /\ dFetchThrew = FALSE
    /\ dResp = AbsentAnswer
    /\ dLog = <<WaitingLine>>
    /\ dResult = NoDate
    /\ dThrown = <<>>

\* one turn of the loop (lines 87-127), on a platform showing one of `feeds`
DeployPoll(feeds) ==
    /\ dPc = "poll"
    /\ DeployLoopCondition
    /\ \E resp \in StatusAnswers, lat \in CallLatencies, feed \in feeds :
        /\ dResp' = resp
        /\ dPolls' = dPolls + 1
        /\ pFeed' = feed
        /\ IF resp.throws
             THEN \* the await rejects: the error leaves the function
                  /\ dPc' = "thrown"
                  /\ dThrown' = SdkError
                  /\ dNow' = dNow + lat
                  /\ dFetched' = 0
                  /\ dFetchThrew' = FALSE
                  /\ UNCHANGED <<dPrevStatus, dLog, dResult>>
             ELSE IF ~HasEnvironment(resp)
             THEN /\ dNow' = dNow + lat + PollInterval(dAction)
                  /\ dFetched' = 0
                  /\ dFetchThrew' = FALSE
                  /\ UNCHANGED <<dPc, dPrevStatus, dLog, dResult, dThrown>>
             ELSE IF StatusIsReady(resp.Status)
             THEN /\ dLog' = Append(dLog, CompleteLine)
                  /\ dPc' = "returned"
                  /\ dResult' = NoDate
                  /\ dNow' = dNow + lat
                  /\ dFetched' = 0
                  /\ dFetchThrew' = FALSE
                  /\ UNCHANGED <<dPrevStatus, dThrown>>
             ELSE \E threw \in BOOLEAN :
                    LET eventCheck == describeRecentEvents(EventAnswer(threw, feed)) IN
                    /\ dFetched' = 1
                    /\ dFetchThrew' = threw
                    /\ IF eventCheck.hasError
                         THEN /\ dPc' = "thrown"
                              /\ dThrown' = FailedEventError(eventCheck.errorMessage)
                              /\ dNow' = dNow + lat
                              /\ UNCHANGED <<dPrevStatus, dLog, dResult>>
                         ELSE /\ IF StatusChanged(resp.Status, dPrevStatus)
                                   THEN /\ dLog' = Append(dLog, StatusLine(resp.Status))
                                        /\ dPrevStatus' = resp.Status
                                   ELSE UNCHANGED <<dLog, dPrevStatus>>
                              /\ dNow' = dNow + lat + PollInterval(dAction)
                              /\ UNCHANGED <<dPc, dResult, dThrown>>
    /\ UNCHANGED <<dTimeout, dAction, dLastSeen>>
    /\ UNCHANGED <<retryVars, healthVars, callVars>>

\* the loop is left (lines 129-131)
DeployTimeout(feeds) ==
    /\ dPc = "poll"
    /\ ~DeployLoopCondition
    /\ \E feed \in feeds, threw \in BOOLEAN :
        /\ pFeed' = feed
        /\ dFetched' = 1
        /\ dFetchThrew' = threw
        /\ dThrown' = TimeoutThrows(dTimeout, describeRecentEvents(EventAnswer(threw, feed)))
    /\ dPc' = "thrown"
    /\ UNCHANGED <<dTimeout, dAction, dNow, dPrevStatus, dLastSeen, dPolls, dResp,
                   dLog, dResult>>
    /\ UNCHANGED <<retryVars, healthVars, callVars>>

\* the state of waitForDeploymentCompletion while it is not the operation under study
DeployOff ==
    /\ dPc = "off"
    /\ dTimeout = 0
    /\ dAction = Undef
    /\ dNow = 0
    /\ dPrevStatus = Undef
    /\ dLastSeen = NoDate
    /\ dPolls = 0
    /\ dFetched = 0
    /\ dFetchThrew = FALSE
    /\ dResp = AbsentAnswer
    /\ dLog = <<>>
    /\ dResult = NoDate
    /\ dThrown = <<>>

\* what the deployment watcher's call of describeRecentEvents logged in the last turn
DeployLogged == describeRecentEvents(EventAnswer(dFetchThrew, pFeed)).logged

(***************************************************************************)
(* waitForHealthRecovery (src/src/monitoring.ts)                           *)
(***************************************************************************)
\* 'Environment deployment failed - health is Red'
HealthRedError == <<"Environment deployment failed - health is Red">>
\* `Environment health check timed out after ${timeout}s`
HealthTimeoutError(timeout) == <<"Environment health check timed out after", timeout, "s">>

\* setTimeout(resolve, 15000)
HealthPollInterval == 15000

\* (for C14) the loop runs one more turn when the time is exactly up
HealthLoopConditionInclusive == hNow <= hTimeout * 1000

\* while (Date.now() - startTime < maxWait), maxWait = timeout * 1000
HealthLoopCondition == hNow < hTimeout * 1000

\* (for C13) an unset health is not taken as Grey
HealthIsGreyOnly(health) == health = "Grey"

\* if (health === 'Grey' || health === undefined)
HealthIsGrey(health) == health = "Grey" \/ health = Undef

\* (for C10) Yellow does not count as healthy
HealthIsGreenOnly(health) == health = "Green"

\* if (health === 'Green' || health === 'Yellow')
HealthIsGood(health) == health = "Green" \/ health = "Yellow"

\* (for C11) Red counts while the status is not 'Ready'
HealthIsBadWhileNotReady(health, status) == health = "Red" /\ status # "Ready"

\* (for C12) Red counts whatever the status
HealthIsBadAnyStatus(health, status) == health = "Red"

\* if (health === 'Red' && status === 'Ready')
HealthIsBad(health, status) == health = "Red" /\ status = "Ready"

\* the state of waitForHealthRecovery when it is called
HealthStarted(timeout) ==
    /\ hPc = "poll"
    /\ hTimeout = timeout
    /\ hNow = 0
    /\ hPrevStatus = Undef
    /\ hPrevHealth = Undef
    /\ hLastSeen = NoDate
    /\ hPolls = 0
    /\ hFetched = 0
    /\ hFetchThrew = FALSE
    /\ hResp = AbsentAnswer
    /\ hThrown = <<>>

\* one turn of the loop (lines 150-201), on a platform showing one of `feeds`
HealthPoll(feeds) ==
    /\ hPc = "poll"
    /\ HealthLoopCondition
    /\ \E resp \in EnvAnswers, lat \in CallLatencies, feed \in feeds,
          threw \in BOOLEAN :
        LET eventCheck == describeRecentEvents(EventAnswer(threw, feed))
            sleep == /\ hNow' = hNow + lat + HealthPollInterval
                     /\ UNCHANGED <<hPc, hThrown>>
        IN
        \* the DescribeEvents query can throw only in a turn that sends it
        /\ threw => resp.present /\ (HealthIsGrey(resp.Health)
                                      \/ HealthIsBad(resp.Health, resp.Status))
        /\ hResp' = resp
        /\ hPolls' = hPolls + 1
        /\ pFeed' = feed
        /\ IF resp.throws
             THEN /\ hPc' = "thrown"
                  /\ hThrown' = SdkError
                  /\ hNow' = hNow + lat
                  /\ hFetched' = 0
                  /\ hFetchThrew' = FALSE
                  /\ UNCHANGED <<hPrevStatus, hPrevHealth>>
             ELSE IF ~resp.present
             THEN /\ sleep
                  /\ hFetched' = 0
                  /\ hFetchThrew' = FALSE
                  /\ UNCHANGED <<hPrevStatus, hPrevHealth>>
             ELSE IF HealthIsGrey(resp.Health) /\ eventCheck.hasError
             THEN /\ hPc' = "thrown"
                  /\ hThrown' = FailedEventError(eventCheck.errorMessage)
                  /\ hNow' = hNow + lat
                  /\ hFetched' = 1
                  /\ hFetchThrew' = threw
                  /\ UNCHANGED <<hPrevStatus, hPrevHealth>>
             ELSE IF HealthIsGood(resp.Health)
             THEN /\ hPc' = "returned"
                  /\ hNow' = hNow + lat
                  /\ hFetched' = 0
                  /\ hFetchThrew' = FALSE
                  /\ UNCHANGED <<hPrevStatus, hPrevHealth, hThrown>>
             ELSE IF HealthIsBad(resp.Health, resp.Status)
             THEN /\ hPc' = "thrown"
                  /\ hThrown' = HealthRedError
                  /\ hNow' = hNow + lat
                  /\ hFetched' = 1
                  /\ hFetchThrew' = threw
                  /\ UNCHANGED <<hPrevStatus, hPrevHealth>>
             ELSE /\ hPrevStatus' = resp.Status
                  /\ hPrevHealth' = resp.Health
                  /\ sleep
                  /\ hFetched' = IF HealthIsGrey(resp.Health) THEN 1 ELSE 0
                  /\ hFetchThrew' = (HealthIsGrey(resp.Health) /\ threw)
    /\ UNCHANGED <<hTimeout, hLastSeen>>
    /\ UNCHANGED <<retryVars, deployVars, callVars>>

\* the loop is left (lines 203-205)
HealthTimeout(feeds) ==
    /\ hPc = "poll"
    /\ ~HealthLoopCondition
    /\ \E feed \in feeds, threw \in BOOLEAN :
        /\ pFeed' = feed
        /\ hFetched' = 1
        /\ hFetchThrew' = threw
    /\ hThrown' = HealthTimeoutError(hTimeout)
    /\ hPc' = "thrown"
    /\ UNCHANGED <<hTimeout, hNow, hPrevStatus, hPrevHealth, hLastSeen, hPolls, hResp>>
    /\ UNCHANGED <<retryVars, deployVars, callVars>>

\* the state of waitForHealthRecovery while it has not been called
HealthOff ==
    /\ hPc = "off"
    /\ hTimeout = 0
    /\ hNow = 0
    /\ hPrevStatus = Undef
    /\ hPrevHealth = Undef
    /\ hLastSeen = NoDate
    /\ hPolls = 0
    /\ hFetched = 0
    /\ hFetchThrew = FALSE
    /\ hResp = AbsentAnswer
    /\ hThrown = <<>>

\* what the health watcher's calls of describeRecentEvents logged in the last turn
HealthLogged ==
    IF hFetched = 1 THEN describeRecentEvents(EventAnswer(hFetchThrew, pFeed)).logged
    ELSE <<>>

(***************************************************************************)
(* The variant of monitoring.ts that keeps lastSeenEventDate               *)
(* (src/unnamed/part_002, lines 55-294)                                    *)
(***************************************************************************)
\* (for C16) the filter is left out
NewEventsAll(events, lastSeenEventDate) == events

\* the filter when it keeps the events of the last seen date as well
NewEventsFromMark(events, lastSeenEventDate) ==
    IF lastSeenEventDate # NoDate
      THEN SelectSeq(events, LAMBDA e : e.EventDate # NoDate /\ e.EventDate >= lastSeenEventDate)
      ELSE events

\* response.Events.filter((event) => eventDate && eventDate > lastSeenEventDate),
\* or response.Events while lastSeenEventDate is undefined
NewEvents(events, lastSeenEventDate) ==
    IF lastSeenEventDate # NoDate
      THEN SelectSeq(events, LAMBDA e : e.EventDate # NoDate /\ e.EventDate > lastSeenEventDate)
      ELSE events

\* mostRecentDate when the forEach assigns without comparing the dates
MostRecentDateUncompared(events) ==
    IF events = <<>> THEN NoDate
    ELSE Head(events).EventDate

\* (for C17) mostRecentDate when the comparison of the forEach is the other
\* way round: the earliest EventDate
RECURSIVE MostRecentDateOldest(_)
MostRecentDateOldest(events) ==
    IF events = <<>> THEN NoDate
    ELSE LET rest == MostRecentDateOldest(Tail(events))
         IN  IF Head(events).EventDate = NoDate THEN rest
             ELSE IF rest = NoDate \/ Head(events).EventDate < rest
                    THEN Head(events).EventDate
                    ELSE rest

\* mostRecentDate after the forEach: the latest EventDate, undefined if none has one
RECURSIVE MostRecentDate(_)
MostRecentDate(events) ==
    IF events = <<>> THEN NoDate
    ELSE LET rest == MostRecentDate(Tail(events))
         IN  IF Head(events).EventDate > rest THEN Head(events).EventDate ELSE rest

\* (for C18) the catch block reports the failed query as an error event
FetchFailedAsError(lastSeenEventDate) ==
    [hasError |-> TRUE, errorMessage |-> "Failed to fetch events",
     lastEventDate |-> lastSeenEventDate, logged |-> <<>>]

\* catch (error) { core.debug(..); return { hasError: false, lastEventDate:
\* lastSeenEventDate }; }
FetchFailed(lastSeenEventDate) ==
    [hasError |-> FALSE, errorMessage |-> Undef,
     lastEventDate |-> lastSeenEventDate, logged |-> <<>>]

\* the outcome of one call: {hasError, errorMessage, lastEventDate}, and the events logged
describeRecentEventsSince(answer, lastSeenEventDate) ==
    IF answer.throws
      THEN FetchFailed(lastSeenEventDate)
      ELSE LET newEvents == NewEvents(answer.Events, lastSeenEventDate) IN
           IF Len(answer.Events) > 0 /\ Len(newEvents) > 0
             THEN IF Len(SelectSeq(newEvents, IsFatalOrError)) > 0
                    THEN [hasError |-> TRUE,
                          errorMessage |-> MessageOf(FirstFatalOrError(newEvents)),
                          lastEventDate |-> MostRecentDate(newEvents),
                          logged |-> newEvents]
                    ELSE [hasError |-> FALSE, errorMessage |-> Undef,
                          lastEventDate |-> MostRecentDate(newEvents),
                          logged |-> newEvents]
             ELSE [hasError |-> FALSE, errorMessage |-> Undef,
                   lastEventDate |-> lastSeenEventDate, logged |-> <<>>]

\* if (eventCheck.lastEventDate) { lastSeenEventDate = eventCheck.lastEventDate; }
UpdatedLastSeen(lastSeenEventDate, eventCheck) ==
    IF eventCheck.lastEventDate # NoDate THEN eventCheck.lastEventDate ELSE lastSeenEventDate

\* the value waitForDeploymentCompletion resolves with: its declaration
\* (part_000, line 6) is Promise<Date | undefined>, "the last seen event date
\* to avoid duplicate events in subsequent monitoring"; section 4.5 of the
\* specification gives it as the final high-water mark
DeployReturns(lastSeenEventDate) == lastSeenEventDate

\* one turn of the loop of waitForDeploymentCompletion (part_002, lines 162-208)
DeployPollSince(feeds) ==
    /\ dPc = "poll"
    /\ DeployLoopCondition
    /\ \E resp \in StatusAnswers, lat \in CallLatencies, feed \in feeds :
        /\ dResp' = resp
        /\ dPolls' = dPolls + 1
        /\ pFeed' = feed
        /\ IF resp.throws
             THEN /\ dPc' = "thrown"
                  /\ dThrown' = SdkError
                  /\ dNow' = dNow + lat
                  /\ dFetched' = 0
                  /\ dFetchThrew' = FALSE
                  /\ UNCHANGED <<dPrevStatus, dLastSeen, dLog, dResult>>
             ELSE IF ~HasEnvironment(resp)
             THEN /\ dNow' = dNow + lat + PollInterval(dAction)
                  /\ dFetched' = 0
                  /\ dFetchThrew' = FALSE
                  /\ UNCHANGED <<dPc, dPrevStatus, dLastSeen, dLog, dResult, dThrown>>
             ELSE IF StatusIsReady(resp.Status)
             THEN /\ dLog' = Append(dLog, CompleteLine)
                  /\ dPc' = "returned"
                  /\ dResult' = DeployReturns(dLastSeen)
                  /\ dNow' = dNow + lat
                  /\ dFetched' = 0
                  /\ dFetchThrew' = FALSE
                  /\ UNCHANGED <<dPrevStatus, dLastSeen, dThrown>>
             ELSE \E threw \in BOOLEAN :
                    LET eventCheck ==
                            describeRecentEventsSince(EventAnswer(threw, feed), dLastSeen)
                    IN
                    /\ dFetched' = 1
                    /\ dFetchThrew' = threw
                    /\ dLastSeen' = UpdatedLastSeen(dLastSeen, eventCheck)
                    /\ IF eventCheck.hasError
                         THEN /\ dPc' = "thrown"
                              /\ dThrown' = FailedEventError(eventCheck.errorMessage)
                              /\ dNow' = dNow + lat
                              /\ UNCHANGED <<dPrevStatus, dLog, dResult>>
                         ELSE /\ IF StatusChanged(resp.Status, dPrevStatus)
                                   THEN /\ dLog' = Append(dLog, StatusLine(resp.Status))
                                        /\ dPrevStatus' = resp.Status
                                   ELSE UNCHANGED <<dLog, dPrevStatus>>
                              /\ dNow' = dNow + lat + PollInterval(dAction)
                              /\ UNCHANGED <<dPc, dResult, dThrown>>
    /\ UNCHANGED <<dTimeout, dAction>>
    /\ UNCHANGED <<retryVars, healthVars, callVars>>

\* the loop is left (part_002, lines 210-212)
DeployTimeoutSince(feeds) ==
    /\ dPc = "poll"
    /\ ~DeployLoopCondition
    /\ \E feed \in feeds, threw \in BOOLEAN :
        /\ pFeed' = feed
        /\ dFetched' = 1
        /\ dFetchThrew' = threw
    /\ dThrown' = DeploymentTimeoutError(dTimeout)
    /\ dPc' = "thrown"
    /\ UNCHANGED <<dTimeout, dAction, dNow, dPrevStatus, dLastSeen, dPolls, dResp,
                   dLog, dResult>>
    /\ UNCHANGED <<retryVars, healthVars, callVars>>

\* what the deployment watcher's call of describeRecentEventsSince logs in a
\* step, given the lastSeenEventDate it is called with
DeployLoggedSince(lastSeenEventDate) ==
    IF dFetched' = 1
      THEN describeRecentEventsSince(EventAnswer(dFetchThrew', pFeed'), lastSeenEventDate).logged
      ELSE <<>>

\* one turn of the loop of waitForHealthRecovery (part_002, lines 232-289), on
\* a platform showing one of `feeds` and answering after one of `latencies`
HealthPollSince(feeds, latencies) ==
    /\ hPc = "poll"
    /\ HealthLoopCondition
    /\ \E resp \in EnvAnswers, lat \in latencies, feed \in feeds,
          threw \in BOOLEAN :
        LET eventCheck == describeRecentEventsSince(EventAnswer(threw, feed), hLastSeen)
            sleep == /\ hNow' = hNow + lat + HealthPollInterval
                     /\ UNCHANGED <<hPc, hThrown>>
        IN
        \* the DescribeEvents query can throw only in a turn that sends it
        /\ threw => resp.present /\ (HealthIsGrey(resp.Health)
                                      \/ HealthIsBad(resp.Health, resp.Status))
        /\ hResp' = resp
        /\ hPolls' = hPolls + 1
        /\ pFeed' = feed
        /\ IF resp.throws
             THEN /\ hPc' = "thrown"
                  /\ hThrown' = SdkError
                  /\ hNow' = hNow + lat
                  /\ hFetched' = 0
                  /\ hFetchThrew' = FALSE
                  /\ UNCHANGED <<hPrevStatus, hPrevHealth, hLastSeen>>
             ELSE IF ~resp.present
             THEN /\ sleep
                  /\ hFetched' = 0
                  /\ hFetchThrew' = FALSE
                  /\ UNCHANGED <<hPrevStatus, hPrevHealth, hLastSeen>>
             ELSE IF HealthIsGrey(resp.Health) /\ eventCheck.hasError
             THEN /\ hPc' = "thrown"
                  /\ hThrown' = FailedEventError(eventCheck.errorMessage)
                  /\ hLastSeen' = UpdatedLastSeen(hLastSeen, eventCheck)
                  /\ hNow' = hNow + lat
                  /\ hFetched' = 1
                  /\ hFetchThrew' = threw
                  /\ UNCHANGED <<hPrevStatus, hPrevHealth>>
             ELSE IF HealthIsGood(resp.Health)
             THEN /\ hPc' = "returned"
                  /\ hNow' = hNow + lat
                  /\ hFetched' = 0
                  /\ hFetchThrew' = FALSE
                  /\ UNCHANGED <<hPrevStatus, hPrevHealth, hLastSeen, hThrown>>
             ELSE IF HealthIsBad(resp.Health, resp.Status)
             THEN \* the diagnostic call; its result is dropped
                  /\ hPc' = "thrown"
                  /\ hThrown' = HealthRedError
                  /\ hNow' = hNow + lat
                  /\ hFetched' = 1
                  /\ hFetchThrew' = threw
                  /\ UNCHANGED <<hPrevStatus, hPrevHealth, hLastSeen>>
             ELSE /\ hPrevStatus' = resp.Status
                  /\ hPrevHealth' = resp.Health
                  /\ sleep
                  /\ hFetched' = IF HealthIsGrey(resp.Health) THEN 1 ELSE 0
                  /\ hFetchThrew' = (HealthIsGrey(resp.Health) /\ threw)
                  /\ hLastSeen' = IF HealthIsGrey(resp.Health)
                                    THEN UpdatedLastSeen(hLastSeen, eventCheck)
                                    ELSE hLastSeen
    /\ UNCHANGED hTimeout
    /\ UNCHANGED <<retryVars, deployVars, callVars>>

\* the loop is left (part_002, lines 291-293)
HealthTimeoutSince(feeds) ==
    /\ hPc = "poll"
    /\ ~HealthLoopCondition
    /\ \E feed \in feeds, threw \in BOOLEAN :
        /\ pFeed' = feed
        /\ hFetched' = 1
        /\ hFetchThrew' = threw
    /\ hThrown' = HealthTimeoutError(hTimeout)
    /\ hPc' = "thrown"
    /\ UNCHANGED <<hTimeout, hNow, hPrevStatus, hPrevHealth, hLastSeen, hPolls, hResp>>
    /\ UNCHANGED <<retryVars, deployVars, callVars>>

\* what the health watcher's call of describeRecentEventsSince logs in a
\* step, given the lastSeenEventDate it is called with
HealthLoggedSince(lastSeenEventDate) ==
    IF hFetched' = 1
      THEN describeRecentEventsSince(EventAnswer(hFetchThrew', pFeed'), lastSeenEventDate).logged
      ELSE <<>>

(***************************************************************************)
(* The caller: wait for the deployment, then for the health                *)
(***************************************************************************)
\* waitForHealthRecovery is called once waitForDeploymentCompletion has
\* returned, with the same timeout and, as lastEventDateFromDeployment
\* (part_000, line 10), the date that call has returned: section 4.6 of the
\* specification has the health watcher carry the mark forward from the
\* deployment watcher.  The locals of waitForDeploymentCompletion (startTime,
\* previousStatus, lastSeenEventDate) end with the call.
HealthCalled ==
    /\ dPc = "returned"
    /\ hPc = "off"
    /\ hPc' = "poll"
    /\ hTimeout' = dTimeout
    /\ hNow' = 0
    /\ hPrevStatus' = Undef
    /\ hPrevHealth' = Undef
    /\ hLastSeen' = dResult
    /\ hPolls' = 0
    /\ hFetched' = 0
    /\ hFetchThrew' = FALSE
    /\ hResp' = AbsentAnswer
    /\ hThrown' = <<>>
    /\ dPc' = "done"
    /\ dNow' = 0
    /\ dPrevStatus' = Undef
    /\ dLastSeen' = NoDate
    /\ dPolls' = 0
    /\ dFetched' = 0
    /\ dFetchThrew' = FALSE
    /\ dResp' = AbsentAnswer
    /\ UNCHANGED <<dTimeout, dAction, dLog, dResult, dThrown>>
    /\ UNCHANGED <<retryVars, pFeed, callVars>>

\* (for C15) the health watcher counts its time from the start of the
\* deployment watcher
HealthElapsedFromDeploy(deployElapsed) == deployElapsed

\* Date.now() - startTime when waitForHealthRecovery has just set its own
\* startTime = Date.now() (monitoring.ts, line 145), the deployment watcher
\* having run for deployElapsed ms
HealthElapsedAtStart(deployElapsed) == 0

\* waitForHealthRecovery of monitoring.ts is called once
\* waitForDeploymentCompletion has returned, with the same timeout (section 5
\* of the specification: wait for deployment, then wait for health; section
\* 4.6: the health timeout may reuse the same configured value)
HealthCalledPlain ==
    /\ dPc = "returned"
    /\ hPc = "off"
    /\ hPc' = "poll"
    /\ hTimeout' = dTimeout
    /\ hNow' = HealthElapsedAtStart(dNow)
    /\ hPrevStatus' = Undef
    /\ hPrevHealth' = Undef
    /\ hLastSeen' = NoDate
    /\ hPolls' = 0
    /\ hFetched' = 0
    /\ hFetchThrew' = FALSE
    /\ hResp' = AbsentAnswer
    /\ hThrown' = <<>>
    /\ dPc' = "done"
    /\ UNCHANGED <<dTimeout, dAction, dNow, dPrevStatus, dLastSeen, dPolls, dFetched,
                   dFetchThrew, dResp, dLog, dResult, dThrown>>
    /\ UNCHANGED <<retryVars, pFeed, callVars>>

(***************************************************************************)
(* describeRecentEvents called on its own                                  *)
(***************************************************************************)
\* response.Events: feeds of at most MaxTailFeedLen events, each with an
\* EventDate up to MaxTailDate or with none
TailEvents == EventsOf({NoDate} \cup (1..MaxTailDate), {"INFO", "ERROR"}, {"m1"})
TailFeeds == UNION {[1..n -> TailEvents] : n \in 0..MaxTailFeedLen}

\* the call is made, with any lastSeenEventDate or with none
TailerCalled ==
    /\ tPc = "called"
    /\ tGiven \in {NoDate} \cup (1..MaxTailDate)
    /\ tMark = tGiven
    /\ tThrew = FALSE
    /\ tOut = <<>>
    /\ pFeed = <<>>

\* describeRecentEvents(clients, applicationName, environmentName,
\* lastSeenEventDate) of part_002 runs, and its caller keeps the date it
\* returns as the watchers do (part_002, lines 181-191)
TailerSince ==
    /\ tPc = "called"
    /\ \E feed \in TailFeeds, threw \in BOOLEAN :
        /\ pFeed' = feed
        /\ tThrew' = threw
        /\ tOut' = describeRecentEventsSince(EventAnswer(threw, feed), tGiven)
    /\ tMark' = UpdatedLastSeen(tGiven, tOut')
    /\ tPc' = "returned"
    /\ UNCHANGED <<tGiven, existsVars, opVars, phaseVars>>
    /\ UNCHANGED <<retryVars, deployVars, healthVars, histVars>>

\* response.Events for describeRecentEvents of monitoring.ts, which reads
\* Severity and Message, either of which an event can lack
ClassEvents ==
    EventsOf({1}, {"INFO", "WARN", "ERROR", "FATAL", Undef}, {"m1", "m2", Undef})
ClassFeeds == UNION {[1..n -> ClassEvents] : n \in 0..MaxTailFeedLen}

\* describeRecentEvents(clients, applicationName, environmentName) of
\* monitoring.ts runs
TailerPlain ==
    /\ tPc = "called"
    /\ \E feed \in ClassFeeds, threw \in BOOLEAN :
        /\ pFeed' = feed
        /\ tThrew' = threw
        /\ tOut' = describeRecentEvents(EventAnswer(threw, feed))
    /\ tPc' = "returned"
    /\ UNCHANGED <<tGiven, tMark, existsVars, opVars, phaseVars>>
    /\ UNCHANGED <<retryVars, deployVars, healthVars, histVars>>

(***************************************************************************)
(* environmentExists (src/src/aws-operations.ts)                           *)
(***************************************************************************)
\* env.Status as Elastic Beanstalk reports it, or none
ExistsStatuses ==
    {"Aborting", "Launching", "Updating", "LinkingFrom", "LinkingTo", "Ready",
     "Terminating", "Terminated", Undef}
EnvironmentNames == {"env-a", "env-b"}

\* what `await send(new DescribeEnvironmentsCommand(..))` does for
\* environmentExists: it throws, or it resolves with no environment, or with
\* Environments[0]
ExistsAnswers ==
    [throws : {FALSE}, present : {TRUE}, Status : ExistsStatuses, Health : Healths]
        \cup {AbsentAnswer, ThrowingAnswer}

\* (for C20) an environment that is being terminated counts as absent too
StatusExistsUnlessTerminating(status) == status \notin {"Terminated", "Terminating"}

\* const exists = status !== 'Terminated'
StatusExists(status) == status # "Terminated"

\* the value returned for an answer: { exists, status, health }, or { exists: false }
environmentExists(answer) ==
    IF answer.throws \/ ~answer.present
      THEN [exists |-> FALSE, status |-> Undef, health |-> Undef]
      ELSE [exists |-> StatusExists(answer.Status),
            status |-> answer.Status,
            health |-> answer.Health]

\* the line written: core.warning in the catch block, else core.info
ExistsLine(name, answer) ==
    IF answer.throws THEN <<"warning", "Error checking environment", name>>
    ELSE IF ~answer.present THEN <<"info", "No environments found with name", name>>
    ELSE <<"info", "Environment", name, "found - Status:", answer.Status,
           "Health:", answer.Health>>

\* what `await send(new DescribeApplicationVersionsCommand(..))` does: it throws,
\* or it resolves without ApplicationVersions, or with a list whose elements
\* carry SourceBundle.S3Bucket and SourceBundle.S3Key, each possibly undefined
\* or empty
VersionAnswers ==
    LET Fields == {Undef, "", "set"}
        Versions == [S3Bucket : Fields, S3Key : Fields]
        Newer == [S3Bucket |-> "other", S3Key |-> "other"]
    IN  {[throws |-> TRUE, listed |-> FALSE, versions |-> <<>>],
         [throws |-> FALSE, listed |-> FALSE, versions |-> <<>>],
         [throws |-> FALSE, listed |-> TRUE, versions |-> <<>>]}
          \cup {[throws |-> FALSE, listed |-> TRUE, versions |-> <<v>>] : v \in Versions}
          \cup {[throws |-> FALSE, listed |-> TRUE, versions |-> <<v, Newer>>] : v \in Versions}

VersionLabels == {"v1", "v2"}

\* (for C21) the catch block passes the error of the query on
VersionQueryRethrown ==
    [thrown |-> <<"DescribeApplicationVersions failed">>, value |-> Undef]

\* catch (error) { core.debug(..); return false; }
VersionQueryFailed == [thrown |-> <<>>, value |-> FALSE]

\* applicationVersionExists: what the call comes to for an answer of the query
applicationVersionExists(answer) ==
    IF answer.throws THEN VersionQueryFailed
    ELSE [thrown |-> <<>>,
          value |-> (IF answer.listed THEN Len(answer.versions) ELSE 0) > 0]

\* (for C22) a bundle counts as incomplete only when bucket and key both lack
BundleIncompleteBoth(bucket, key) == bucket \in {Undef, ""} /\ key \in {Undef, ""}

\* if (!bucket || !key)
BundleIncomplete(bucket, key) == bucket \in {Undef, ""} \/ key \in {Undef, ""}

\* the catch block of getVersionS3Location wraps whatever was thrown inside
LocationError(versionLabel, error) ==
    <<"Failed to get S3 location for application version", versionLabel>> \o error

\* getVersionS3Location: what the call comes to for an answer of the query
getVersionS3Location(answer, versionLabel) ==
    IF answer.throws
      THEN [thrown |-> LocationError(versionLabel, <<"DescribeApplicationVersions failed">>),
            value |-> Undef]
    ELSE IF ~answer.listed \/ Len(answer.versions) = 0
      THEN [thrown |-> LocationError(versionLabel, <<"Version", versionLabel, "not found">>),
            value |-> Undef]
    ELSE LET bucket == answer.versions[1].S3Bucket
             key == answer.versions[1].S3Key
         IN  IF BundleIncomplete(bucket, key)
               THEN [thrown |-> LocationError(versionLabel,
                        <<"Application Version", versionLabel,
                          "has incomplete S3 source bundle information",
                          IF bucket \in {Undef, ""} THEN "bucket: missing" ELSE "bucket: " \o bucket,
                          IF key \in {Undef, ""} THEN "key: missing" ELSE "key: " \o key>>),
                     value |-> Undef]
               ELSE [thrown |-> <<>>, value |-> [bucket |-> bucket, key |-> key]]

\* one of the two version functions is called, the platform being about to
\* answer eAnswer
VersionCalled ==
    /\ ePc \in {"calledVersion", "calledLocation"}
    /\ eName \in VersionLabels
    /\ eAnswer \in VersionAnswers
    /\ eOut = <<>>
    /\ eLog = <<>>

\* the body of applicationVersionExists runs
VersionExistsReturns ==
    /\ ePc = "calledVersion"
    /\ eOut' = applicationVersionExists(eAnswer)
    /\ eLog' = IF eAnswer.throws
                 THEN <<"debug", "Error checking application version", eName, "existence">>
                 ELSE <<>>
    /\ ePc' = "returnedExists"
    /\ UNCHANGED <<eName, eAnswer, tailVars, opVars, phaseVars>>
    /\ UNCHANGED <<retryVars, pFeed, deployVars, healthVars, histVars>>

\* the body of getVersionS3Location runs
LocationReturns ==
    /\ ePc = "calledLocation"
    /\ eOut' = getVersionS3Location(eAnswer, eName)
    /\ ePc' = "returnedLocation"
    /\ UNCHANGED <<eName, eAnswer, eLog, tailVars, opVars, phaseVars>>
    /\ UNCHANGED <<retryVars, pFeed, deployVars, healthVars, histVars>>

\* environmentExists is called, the platform being about to answer eAnswer
ExistsCalled ==
    /\ ePc = "called"
    /\ eName \in EnvironmentNames
    /\ eAnswer \in ExistsAnswers
    /\ eOut = <<>>
    /\ eLog = <<>>

\* the body runs: the query is sent and the answer turned into the result
ExistsReturns ==
    /\ ePc = "called"
    /\ eOut' = environmentExists(eAnswer)
    /\ eLog' = ExistsLine(eName, eAnswer)
    /\ ePc' = "returned"
    /\ UNCHANGED <<eName, eAnswer, tailVars, opVars, phaseVars>>
    /\ UNCHANGED <<retryVars, pFeed, deployVars, healthVars, histVars>>

(***************************************************************************)
(* The functions of aws-operations.ts that send commands                   *)
(*                                                                         *)
(* Strings that the code builds from parts (bucket, key, packagePath) are  *)
(* sequences of their parts, "." and "/" being parts of their own.         *)
(***************************************************************************)
\* a script of fn for retryWithBackoff: it rejects k times with the message,
\* then resolves (what follows the first success is never run)
OpPlan(k, message) ==
    [i \in 1..MaxRetriesTried |->
        IF i <= k THEN [ok |-> FALSE, message |-> message]
                  ELSE [ok |-> TRUE, value |-> Undef]]

OpPlans(message) == {OpPlan(k, message) : k \in 0..MaxRetriesTried}

\* every command sent so far, in order: those before the current
\* retryWithBackoff, then one per invocation of its fn
Sent == oSent \o [i \in 1..calls |-> oCommand]

\* (for C30) the wrapper is given a fixed number of attempts
PassedMaxRetriesDefault(n) == 3

\* the arguments maxRetries of every retryWithBackoff(.., maxRetries, retryDelay, ..)
PassedMaxRetries(n) == n

\* await retryWithBackoff(async () => { .. send(command) }, maxRetries, retryDelay, name)
\* is entered
RetryCalled(command, plans) ==
    /\ plan' \in plans
    /\ oCommand' = command
    /\ oPc' = "retrying"
    /\ rPc' = "loop"
    /\ maxRetries' = PassedMaxRetries(oIn.maxRetries)
    /\ retryDelay' = oIn.retryDelay
    /\ attempt' = 1
    /\ calls' = 0
    /\ lastError' = Undef
    /\ sleeps' = <<>>
    /\ warnings' = <<>>
    /\ rResult' = Undef
    /\ rThrown' = <<>>

\* (for C23) only a probe answered "not found" counts as a missing bucket
HeadBucketSucceedsUnlessNotFound(probe) == probe # "NotFound"

\* await send(new HeadBucketCommand(..)) resolves
HeadBucketSucceeds(probe) == probe = "ok"

\* const bucket = `elasticbeanstalk-${region}-${accountId}`
BucketName(region, accountId) == <<"elasticbeanstalk", "-", region, "-", accountId>>

\* (for C25) the extension starts at the first "." of the last segment
ExtNameFromFirstDot(packagePath) ==
    LET slashes == {i \in 1..Len(packagePath) : packagePath[i] = "/"}
        start == IF slashes = {} THEN 1
                 ELSE (CHOOSE i \in slashes : \A j \in slashes : j <= i) + 1
        dots == {i \in start..Len(packagePath) : packagePath[i] = "."}
        first == CHOOSE i \in dots : \A j \in dots : i <= j
    IN  IF dots = {} THEN <<>> ELSE SubSeq(packagePath, first, Len(packagePath))

\* path.extname(packagePath): from the last "." of the last segment of the
\* path to its end; empty when that segment has no "." or only begins with one
ExtName(packagePath) ==
    LET slashes == {i \in 1..Len(packagePath) : packagePath[i] = "/"}
        start == IF slashes = {} THEN 1
                 ELSE (CHOOSE i \in slashes : \A j \in slashes : j <= i) + 1
        dots == {i \in start..Len(packagePath) : packagePath[i] = "."}
        last == CHOOSE i \in dots : \A j \in dots : j <= i
    IN  IF dots = {} \/ last = start THEN <<>>
        ELSE SubSeq(packagePath, last, Len(packagePath))

\* const key = `${applicationName}/${versionLabel}${packageExtension}`
ObjectKey(applicationName, versionLabel, packagePath) ==
    <<applicationName, "/", versionLabel>> \o ExtName(packagePath)

\* (for C24) the bucket is probed whatever the flag says
EnsuresBucketAlways(createBucketIfNotExists) == TRUE

\* if (createBucketIfNotExists)
EnsuresBucket(createBucketIfNotExists) == createBucketIfNotExists

\* parameter bucket of createS3Bucket: its own, or the one uploadToS3 passes
BucketOf(op, in) ==
    IF op = "createS3Bucket" THEN in.bucket ELSE BucketName(in.region, in.accountId)

\* createParams: the location constraint is left out for us-east-1
CreateBucketCommand(region, bucket) ==
    IF region = "us-east-1"
      THEN [name |-> "CreateBucket", Bucket |-> bucket, LocationConstraint |-> Undef]
      ELSE [name |-> "CreateBucket", Bucket |-> bucket, LocationConstraint |-> region]

\* new PutObjectCommand({ Bucket: bucket, Key: key, Body: fileContent })
PutObjectCommand(in) ==
    [name |-> "PutObject", Bucket |-> BucketName(in.region, in.accountId),
     Key |-> ObjectKey(in.applicationName, in.versionLabel, in.packagePath)]

\* the upload of uploadToS3 is entered; the bucket is there if it was there at
\* the start or has been created, and without it every PutObject fails
UploadCalled(bucketThere) ==
    RetryCalled(PutObjectCommand(oIn),
                IF bucketThere THEN OpPlans("AccessDenied")
                ELSE {OpPlan(MaxRetriesTried, "NoSuchBucket")})

\* createS3Bucket or uploadToS3 is called. The platform has the bucket or
\* not, and answers the HeadBucket probe accordingly or with another failure.
BucketOpCalled ==
    /\ oOp \in {"createS3Bucket", "uploadToS3"}
    /\ oPc = IF oOp = "createS3Bucket" THEN "probe" ELSE "called"
    /\ oIn \in IF oOp = "createS3Bucket"
                THEN [region : {"us-east-1", "eu-west-1"}, bucket : {<<"bucket">>},
                      maxRetries : 0..MaxRetriesTried, retryDelay : 1..MaxDelayTried]
                ELSE [region : {"us-east-1", "eu-west-1"}, accountId : {"123456789012"},
                      applicationName : {"my-app"}, versionLabel : {"v1"},
                      packagePath : {<<"app", ".", "zip">>, <<"pkg">>,
                                     <<"out", ".", "d", "/", "pkg">>, <<".", "env">>,
                                     <<"app", ".", "tar", ".", "gz">>},
                      maxRetries : 0..MaxRetriesTried, retryDelay : 1..MaxDelayTried,
                      createBucketIfNotExists : BOOLEAN]
    /\ oWorld \in {w \in [bucketExists : BOOLEAN, probe : {"ok", "NotFound", "Forbidden"}] :
                       /\ w.probe = "ok" => w.bucketExists
                       /\ w.probe = "NotFound" => ~w.bucketExists}
    /\ oSent = <<>>
    /\ oCommand = [name |-> Undef]
    /\ oOut = <<>>
    /\ oThrown = <<>>

\* uploadToS3 up to its first await: createS3Bucket when the flag is set,
\* else the upload at once (fs.statSync finds the package)
UploadStarts ==
    /\ oPc = "called"
    /\ oOp = "uploadToS3"
    /\ IF EnsuresBucket(oIn.createBucketIfNotExists)
         THEN /\ oPc' = "probe"
              /\ UNCHANGED <<retryVars, oCommand>>
         ELSE UploadCalled(oWorld.bucketExists)
    /\ UNCHANGED <<oOp, oIn, oWorld, oSent, oOut, oThrown>>
    /\ UNCHANGED <<pFeed, deployVars, healthVars, histVars, tailVars, existsVars, phaseVars>>

\* createS3Bucket: the probe is sent once; when it resolves the function
\* returns (and uploadToS3 goes on to its upload), when it rejects CreateBucket
\* is sent under retryWithBackoff
HeadBucketSent ==
    /\ oPc = "probe"
    /\ oSent' = Append(oSent, [name |-> "HeadBucket", Bucket |-> BucketOf(oOp, oIn)])
    /\ IF HeadBucketSucceeds(oWorld.probe)
         THEN IF oOp = "createS3Bucket"
                THEN /\ oPc' = "returned"
                     /\ UNCHANGED <<retryVars, oCommand>>
                ELSE UploadCalled(TRUE)
         ELSE RetryCalled(CreateBucketCommand(oIn.region, BucketOf(oOp, oIn)),
                          OpPlans("AccessDenied"))
    /\ UNCHANGED <<oOp, oIn, oWorld, oOut, oThrown>>
    /\ UNCHANGED <<pFeed, deployVars, healthVars, histVars, tailVars, existsVars, phaseVars>>

\* the retryWithBackoff of createS3Bucket is over: its error goes up through
\* createS3Bucket (and uploadToS3); else createS3Bucket returns, and
\* uploadToS3 goes on to its upload
BucketSettled ==
    /\ oPc = "retrying"
    /\ oCommand.name = "CreateBucket"
    /\ rPc \in {"returned", "thrown"}
    /\ IF rPc = "thrown"
         THEN /\ oThrown' = rThrown
              /\ oPc' = "thrown"
              /\ UNCHANGED <<retryVars, oCommand, oSent>>
         ELSE IF oOp = "createS3Bucket"
           THEN /\ oPc' = "returned"
                /\ UNCHANGED <<retryVars, oCommand, oSent, oThrown>>
           ELSE /\ oSent' = Sent
                /\ UploadCalled(TRUE)
                /\ UNCHANGED oThrown
    /\ UNCHANGED <<oOp, oIn, oWorld, oOut>>
    /\ UNCHANGED <<pFeed, deployVars, healthVars, histVars, tailVars, existsVars, phaseVars>>

\* what each function returns after its last retryWithBackoff
Returned(op, in) ==
    IF op = "uploadToS3"
      THEN [bucket |-> BucketName(in.region, in.accountId),
            key |-> ObjectKey(in.applicationName, in.versionLabel, in.packagePath)]
      ELSE <<>>

\* the last retryWithBackoff of a function is over: its error goes up, else the
\* function returns
OperationSettled ==
    /\ oPc = "retrying"
    /\ oCommand.name # "CreateBucket"
    /\ rPc \in {"returned", "thrown"}
    /\ IF rPc = "thrown"
         THEN /\ oThrown' = rThrown
              /\ oPc' = "thrown"
              /\ UNCHANGED oOut
         ELSE /\ oOut' = Returned(oOp, oIn)
              /\ oPc' = "returned"
              /\ UNCHANGED oThrown
    /\ UNCHANGED <<retryVars, oOp, oIn, oWorld, oSent, oCommand>>
    /\ UNCHANGED <<pFeed, deployVars, healthVars, histVars, tailVars, existsVars, phaseVars>>

(***************************************************************************)
(* createApplicationVersion, updateEnvironment, createEnvironment          *)
(*                                                                         *)
(* A JSON text is what JSON.parse makes of it: nothing it can parse, or a  *)
(* value that is an array of settings or something else.                   *)
(***************************************************************************)
\* the entries createEnvironment puts first, built from its two role parameters
BaseOptionSettings(iamInstanceProfile, serviceRole) ==
    <<[Namespace |-> "aws:autoscaling:launchconfiguration",
       OptionName |-> "IamInstanceProfile", Value |-> iamInstanceProfile],
      [Namespace |-> "aws:elasticbeanstalk:environment",
       OptionName |-> "ServiceRole", Value |-> serviceRole]>>

\* parseJsonInput: JSON.parse(jsonString), or its error
parseJsonInput(jsonString, inputName) ==
    IF jsonString.parses
      THEN [thrown |-> <<>>, value |-> jsonString.value]
      ELSE [thrown |-> <<"Invalid JSON in", inputName, "input">>, value |-> Undef]

\* (for C26) the caller's entries come first
CreateOptionSettingsCustomFirst(base, text) ==
    IF text.empty THEN base
    ELSE LET customSettings == parseJsonInput(text, "option-settings").value
         IN  IF customSettings.array THEN customSettings.items \o base ELSE base

\* let optionSettings = baseOptionSettings; if (customOptionSettings) { .. }
\* (for a text that parses)
CreateOptionSettings(base, text) ==
    IF text.empty THEN base
    ELSE LET customSettings == parseJsonInput(text, "option-settings").value
         IN  IF customSettings.array THEN base \o customSettings.items ELSE base

\* (for C28) updateEnvironment puts the role entries first, as createEnvironment does
UpdateOptionSettingsWithRoles(text) ==
    IF text.empty THEN [set |-> FALSE, list |-> <<>>]
    ELSE LET customSettings == parseJsonInput(text, "option-settings").value
         IN  IF customSettings.array
               THEN [set |-> TRUE,
                     list |-> BaseOptionSettings("ec2-role", "svc-role")
                                 \o customSettings.items]
               ELSE [set |-> FALSE, list |-> <<>>]

\* parsedOptionSettings of updateEnvironment, undefined unless the text is an
\* array (for a text that parses)
UpdateOptionSettings(text) ==
    IF text.empty THEN [set |-> FALSE, list |-> <<>>]
    ELSE LET customSettings == parseJsonInput(text, "option-settings").value
         IN  IF customSettings.array
               THEN [set |-> TRUE, list |-> customSettings.items]
               ELSE [set |-> FALSE, list |-> <<>>]

\* (for C29) each selector that is given is set
PlatformFieldsEach(solutionStackName, platformArn) ==
    [SolutionStackName |-> IF solutionStackName \in {Undef, ""} THEN Undef
                           ELSE solutionStackName,
     PlatformArn |-> IF platformArn \in {Undef, ""} THEN Undef ELSE platformArn]

\* if (solutionStackName) { .. } else if (platformArn) { .. }
PlatformFields(solutionStackName, platformArn) ==
    IF solutionStackName \notin {Undef, ""}
      THEN [SolutionStackName |-> solutionStackName, PlatformArn |-> Undef]
    ELSE IF platformArn \notin {Undef, ""}
      THEN [SolutionStackName |-> Undef, PlatformArn |-> platformArn]
    ELSE [SolutionStackName |-> Undef, PlatformArn |-> Undef]

\* commandParams of updateEnvironment and createEnvironment
EnvironmentCommand(name, in, optionSettings) ==
    [name |-> name, ApplicationName |-> in.applicationName,
     EnvironmentName |-> in.environmentName, VersionLabel |-> in.versionLabel,
     CNAMEPrefix |-> IF name = "CreateEnvironment" THEN in.environmentName ELSE Undef,
     OptionSettings |-> optionSettings,
     Platform |-> PlatformFields(in.solutionStackName, in.platformArn)]

\* createApplicationVersion, updateEnvironment or createEnvironment is called.
\* The text of the option settings is empty, or no JSON, or JSON of something
\* that is no array, or of an array of settings, which may repeat the role
\* entries. The platform has each of the two roles or not.
EnvOpCalled ==
    LET Settings == {[Namespace |-> "aws:elasticbeanstalk:application:environment",
                      OptionName |-> "STAGE", Value |-> "prod"]}
                      \cup {BaseOptionSettings("ec2-role", "svc-role")[i] : i \in 1..2}
        Arrays == UNION {[1..n -> Settings] : n \in 0..MaxSettings}
        Other == [array |-> FALSE, items |-> <<>>]
        Texts == {[empty |-> TRUE, parses |-> FALSE, value |-> Other],
                  [empty |-> FALSE, parses |-> FALSE, value |-> Other],
                  [empty |-> FALSE, parses |-> TRUE, value |-> Other]}
                   \cup {[empty |-> FALSE, parses |-> TRUE,
                          value |-> [array |-> TRUE, items |-> a]] : a \in Arrays}
        Common == [applicationName : {"my-app"}, versionLabel : {"v1"},
                   maxRetries : 0..MaxRetriesTried, retryDelay : 1..MaxDelayTried]
    IN  /\ oOp \in {"createApplicationVersion", "updateEnvironment", "createEnvironment"}
        /\ oPc = "called"
        /\ oIn \in
             IF oOp = "createApplicationVersion"
               THEN {c @@ [s3Bucket |-> <<"bucket">>, s3Key |-> <<"key">>,
                           autoCreateApplication |-> a] : c \in Common, a \in BOOLEAN}
               ELSE {c @@ [environmentName |-> "my-env", optionSettings |-> t,
                           solutionStackName |-> stack, platformArn |-> arn,
                           iamInstanceProfile |-> "ec2-role", serviceRole |-> "svc-role"] :
                        c \in Common, t \in Texts, stack \in {Undef, "", "stack"},
                        arn \in {Undef, "arn"}}
        /\ oWorld \in IF oOp = "createEnvironment"
                         THEN [profile : BOOLEAN, role : BOOLEAN]
                         ELSE {[profile |-> TRUE, role |-> TRUE]}
        /\ oSent = <<>>
        /\ oCommand = [name |-> Undef]
        /\ oOut = <<>>
        /\ oThrown = <<>>

\* createApplicationVersion up to its await
VersionCreateStarts ==
    /\ oPc = "called"
    /\ oOp = "createApplicationVersion"
    /\ RetryCalled([name |-> "CreateApplicationVersion",
                    ApplicationName |-> oIn.applicationName,
                    VersionLabel |-> oIn.versionLabel,
                    SourceBundle |-> [S3Bucket |-> oIn.s3Bucket, S3Key |-> oIn.s3Key],
                    AutoCreateApplication |-> oIn.autoCreateApplication],
                   OpPlans("AccessDenied"))
    /\ UNCHANGED <<oOp, oIn, oWorld, oSent, oOut, oThrown>>
    /\ UNCHANGED <<pFeed, deployVars, healthVars, histVars, tailVars, existsVars, phaseVars>>

\* updateEnvironment up to its await: the text is parsed, which may throw
UpdateStarts ==
    /\ oPc = "called"
    /\ oOp = "updateEnvironment"
    /\ IF ~oIn.optionSettings.empty
            /\ parseJsonInput(oIn.optionSettings, "option-settings").thrown # <<>>
         THEN /\ oThrown' = <<"Failed to parse option-settings:">>
                               \o parseJsonInput(oIn.optionSettings, "option-settings").thrown
              /\ oPc' = "thrown"
              /\ UNCHANGED <<retryVars, oCommand>>
         ELSE /\ RetryCalled(EnvironmentCommand("UpdateEnvironment", oIn,
                                 UpdateOptionSettings(oIn.optionSettings)),
                             OpPlans("AccessDenied"))
              /\ UNCHANGED oThrown
    /\ UNCHANGED <<oOp, oIn, oWorld, oSent, oOut>>
    /\ UNCHANGED <<pFeed, deployVars, healthVars, histVars, tailVars, existsVars, phaseVars>>

\* (for C27) a failed lookup is logged and verifyIamRoles goes on
LookupThrowsNever(found) == FALSE

\* try { await send(lookup) } catch (_error) { throw new Error(..) }
LookupThrows(found) == ~found

\* createEnvironment calls verifyIamRoles, which looks the instance profile up
ProfileLookedUp ==
    /\ oPc = "called"
    /\ oOp = "createEnvironment"
    /\ oSent' = Append(oSent, [name |-> "GetInstanceProfile",
                               InstanceProfileName |-> oIn.iamInstanceProfile])
    /\ IF LookupThrows(oWorld.profile)
         THEN /\ oThrown' = <<"Instance profile", oIn.iamInstanceProfile, "does not exist">>
              /\ oPc' = "thrown"
         ELSE /\ oPc' = "lookup"
              /\ UNCHANGED oThrown
    /\ UNCHANGED <<retryVars, oOp, oIn, oWorld, oCommand, oOut>>
    /\ UNCHANGED <<pFeed, deployVars, healthVars, histVars, tailVars, existsVars, phaseVars>>

\* verifyIamRoles looks the service role up; when it is there createEnvironment
\* builds its option settings, which may throw, and enters retryWithBackoff
RoleLookedUp ==
    /\ oPc = "lookup"
    /\ oSent' = Append(oSent, [name |-> "GetRole", RoleName |-> oIn.serviceRole])
    /\ IF LookupThrows(oWorld.role)
         THEN /\ oThrown' = <<"Service role", oIn.serviceRole, "does not exist">>
              /\ oPc' = "thrown"
              /\ UNCHANGED <<retryVars, oCommand>>
         ELSE IF ~oIn.optionSettings.empty
                   /\ parseJsonInput(oIn.optionSettings, "option-settings").thrown # <<>>
           THEN /\ oThrown' = parseJsonInput(oIn.optionSettings, "option-settings").thrown
                /\ oPc' = "thrown"
                /\ UNCHANGED <<retryVars, oCommand>>
           ELSE /\ RetryCalled(EnvironmentCommand("CreateEnvironment", oIn,
                        [set |-> TRUE,
                         list |-> CreateOptionSettings(
                                     BaseOptionSettings(oIn.iamInstanceProfile,
                                                        oIn.serviceRole),
                                     oIn.optionSettings)]),
                        OpPlans("AccessDenied"))
                /\ UNCHANGED oThrown
    /\ UNCHANGED <<oOp, oIn, oWorld, oOut>>
    /\ UNCHANGED <<pFeed, deployVars, healthVars, histVars, tailVars, existsVars, phaseVars>>

(***************************************************************************)
(* validateRequiredInputs (src/src/validations.ts)                         *)
(*                                                                         *)
(* An input is the text core.getInput returns, "" when it is not set.      *)
(* Whether a text matches a pattern or has a permitted length is given     *)
(* with the input.                                                         *)
(***************************************************************************)
\* validateRequiredInputs: the first test that fails sets the failure and
\* returns { valid: false }; else the inputs are returned, "" as undefined
validateRequiredInputs(in) ==
    LET solutionStackName == IF in.solutionStackName = "" THEN Undef
                             ELSE in.solutionStackName
        platformArn == IF in.platformArn = "" THEN Undef ELSE in.platformArn
        Fails(message) == [valid |-> FALSE, failed |-> message,
                           solutionStackName |-> Undef, platformArn |-> Undef]
    IN  IF solutionStackName = Undef /\ platformArn = Undef
          THEN Fails("Either solution-stack-name or platform-arn must be provided")
        ELSE IF solutionStackName # Undef /\ platformArn # Undef
          THEN Fails("Cannot specify both solution-stack-name and platform-arn. Use only one.")
        ELSE IF ~in.regionWellFormed
          THEN Fails("Invalid AWS region format")
        ELSE IF platformArn # Undef /\ ~in.arnWellFormed
          THEN Fails("Invalid platform ARN format")
        ELSE IF platformArn # Undef /\ ~in.arnRegionMatches
          THEN Fails("Platform ARN region does not match aws-region input")
        ELSE IF ~in.applicationNameFits
          THEN Fails("Application name must be between 1 and 100 characters")
        ELSE IF ~in.environmentNameFits
          THEN Fails("Environment name must be between 4 and 40 characters")
        ELSE IF ~in.environmentNameWellFormed
          THEN Fails("Environment name can only contain alphanumeric characters and hyphens")
        ELSE IF ~in.optionSettings.empty /\ ~in.optionSettings.parses
          THEN Fails("Invalid JSON in option-settings")
        ELSE IF ~in.optionSettings.empty /\ ~in.optionSettings.value.array
          THEN Fails("option-settings must be a JSON array")
        ELSE [valid |-> TRUE, failed |-> Undef,
              solutionStackName |-> solutionStackName, platformArn |-> platformArn]

\* validateRequiredInputs is called with the inputs of the workflow
ValidateCalled ==
    LET Other == [array |-> FALSE, items |-> <<>>]
    IN  /\ oOp = "validateRequiredInputs"
        /\ oPc = "called"
        /\ oIn \in [solutionStackName : {"", "stack"}, platformArn : {"", "arn"},
                     regionWellFormed : BOOLEAN, arnWellFormed : BOOLEAN,
                     arnRegionMatches : BOOLEAN, applicationNameFits : BOOLEAN,
                     environmentNameFits : BOOLEAN, environmentNameWellFormed : BOOLEAN,
                     optionSettings :
                        {[empty |-> TRUE, parses |-> FALSE, value |-> Other],
                         [empty |-> FALSE, parses |-> FALSE, value |-> Other],
                         [empty |-> FALSE, parses |-> TRUE, value |-> Other],
                         [empty |-> FALSE, parses |-> TRUE,
                          value |-> [array |-> TRUE, items |-> <<>>]]}]
        /\ oWorld = <<>>
        /\ oSent = <<>>
        /\ oCommand = [name |-> Undef]
        /\ oOut = <<>>
        /\ oThrown = <<>>

\* the body of validateRequiredInputs runs
ValidateReturns ==
    /\ oPc = "called"
    /\ oOp = "validateRequiredInputs"
    /\ oOut' = validateRequiredInputs(oIn)
    /\ oPc' = "returned"
    /\ UNCHANGED <<retryVars, oOp, oIn, oWorld, oSent, oCommand, oThrown>>
    /\ UNCHANGED <<pFeed, deployVars, healthVars, histVars, tailVars, existsVars, phaseVars>>

(***************************************************************************)
(* The functions called on their own, while they are not called            *)
(***************************************************************************)
TailerOff ==
    /\ tPc = "off"
    /\ tGiven = NoDate
    /\ tMark = NoDate
    /\ tThrew = FALSE
    /\ tOut = <<>>

ExistsOff ==
    /\ ePc = "off"
    /\ eName = Undef
    /\ eAnswer = AbsentAnswer
    /\ eOut = <<>>
    /\ eLog = <<>>

OpsOff ==
    /\ oPc = "off"
    /\ oOp = Undef
    /\ oIn = <<>>
    /\ oWorld = <<>>
    /\ oSent = <<>>
    /\ oCommand = [name |-> Undef]
    /\ oOut = <<>>
    /\ oThrown = <<>>

PhaseOff ==
    /\ vPc = "off"
    /\ vIn = <<>>
    /\ vStore = <<>>
    /\ vRuns = <<>>

CallsOff == TailerOff /\ ExistsOff /\ OpsOff /\ PhaseOff

(***************************************************************************)
(* The specifications.                                                     *)
(***************************************************************************)
NoHistory ==
    /\ dSeen = <<>>
    /\ dReported = {}
    /\ hReported = {}

\* retryWithBackoff on its own
InitRetry ==
    RetryInit /\ pFeed = <<>> /\ DeployOff /\ HealthOff /\ NoHistory /\ CallsOff

SpecRetry == InitRetry /\ [][RetryNext]_vars

\* waitForDeploymentCompletion of monitoring.ts on its own
DeployNext ==
    \/ DeployPoll(PlainFeeds) /\ UNCHANGED histVars
    \/ DeployTimeout(PlainFeeds) /\ UNCHANGED histVars

InitDeploy == DeployInit /\ RetryOff /\ HealthOff /\ NoHistory /\ CallsOff

SpecDeploy == InitDeploy /\ [][DeployNext]_vars

\* the same on a platform without events, with the statuses it saw on record
DeployTraceNext ==
    \/ DeployPoll(QuietFeeds)
         /\ dSeen' = Append(dSeen, IF dResp'.present THEN dResp'.Status ELSE "none")
         /\ UNCHANGED <<dReported, hReported>>
    \/ DeployTimeout(QuietFeeds) /\ UNCHANGED histVars

SpecDeployTrace == InitDeploy /\ [][DeployTraceNext]_vars

\* waitForHealthRecovery of monitoring.ts on its own
HealthNext ==
    \/ HealthPoll(PlainFeeds) /\ UNCHANGED histVars
    \/ HealthTimeout(PlainFeeds) /\ UNCHANGED histVars

InitHealth ==
    HealthStarted(MinTimeout) /\ pFeed = <<>> /\ RetryOff /\ DeployOff /\ NoHistory
        /\ CallsOff

SpecHealth == InitHealth /\ [][HealthNext]_vars

\* the set of the elements of a sequence
Range(seq) == {seq[i] : i \in 1..Len(seq)}

\* the watchers that keep lastSeenEventDate, with the events each has logged on
\* record: the deployment watcher on its own, and the two one after the other
\* informational events of every date, and an error event of the latest date
SinceEvents ==
    EventsOf(1..MaxEventDate, {"INFO"}, {"m1"})
        \cup EventsOf({MaxEventDate}, {"ERROR"}, {"m1"})
SinceFeeds == FeedsOf(SinceEvents)

DeployPollRecorded ==
    /\ DeployPollSince(SinceFeeds)
    /\ dReported' = dReported \cup Range(DeployLoggedSince(dLastSeen))
    /\ UNCHANGED <<dSeen, hReported>>

DeployTimeoutRecorded ==
    /\ DeployTimeoutSince(SinceFeeds)
    /\ dReported' = dReported \cup Range(DeployLoggedSince(dLastSeen))
    /\ UNCHANGED <<dSeen, hReported>>

HealthPollRecorded ==
    /\ HealthPollSince(SinceFeeds, {0})
    /\ hReported' = hReported \cup Range(HealthLoggedSince(hLastSeen))
    /\ UNCHANGED <<dSeen, dReported>>

HealthTimeoutRecorded ==
    /\ HealthTimeoutSince(SinceFeeds)
    /\ hReported' = hReported \cup Range(HealthLoggedSince(hLastSeen))
    /\ UNCHANGED <<dSeen, dReported>>

HealthCalledRecorded ==
    /\ HealthCalled
    /\ UNCHANGED histVars

InitSince ==
    DeployInit /\ dAction = "create" /\ RetryOff /\ HealthOff /\ NoHistory /\ CallsOff

DeploySinceNext ==
    \/ DeployPollRecorded
    \/ DeployTimeoutRecorded

SpecDeploySince == InitSince /\ [][DeploySinceNext]_vars

PipelineNext ==
    \/ DeployPollRecorded
    \/ DeployTimeoutRecorded
    \/ HealthCalledRecorded
    \/ HealthPollRecorded
    \/ HealthTimeoutRecorded

SpecPipeline == InitSince /\ [][PipelineNext]_vars

\* the two watchers of monitoring.ts one after the other, on a platform with
\* no events to show
DeployPollQuiet ==
    /\ DeployPoll(QuietFeeds)
    /\ UNCHANGED histVars

DeployTimeoutQuiet ==
    /\ DeployTimeout(QuietFeeds)
    /\ UNCHANGED histVars

HealthCalledPlainQuiet ==
    /\ HealthCalledPlain
    /\ UNCHANGED histVars

HealthPollQuiet ==
    /\ HealthPoll(QuietFeeds)
    /\ UNCHANGED histVars

HealthTimeoutQuiet ==
    /\ HealthTimeout(QuietFeeds)
    /\ UNCHANGED histVars

BudgetNext ==
    \/ DeployPollQuiet
    \/ DeployTimeoutQuiet
    \/ HealthCalledPlainQuiet
    \/ HealthPollQuiet
    \/ HealthTimeoutQuiet

SpecBudget == InitDeploy /\ [][BudgetNext]_vars

\* describeRecentEvents of part_002 called on its own
InitTailer ==
    TailerCalled /\ ExistsOff /\ OpsOff /\ PhaseOff /\ RetryOff /\ DeployOff /\ HealthOff /\ NoHistory

TailerNext == TailerSince

SpecTailer == InitTailer /\ [][TailerNext]_vars

\* describeRecentEvents of monitoring.ts called on its own
InitClassify == InitTailer /\ tGiven = NoDate

ClassifyNext == TailerPlain

SpecClassify == InitClassify /\ [][ClassifyNext]_vars

\* the existence functions called on their own
InitExists ==
    (ExistsCalled \/ VersionCalled) /\ TailerOff /\ OpsOff /\ PhaseOff /\ pFeed = <<>> /\ RetryOff /\ DeployOff /\ HealthOff
        /\ NoHistory

ExistsNext ==
    \/ ExistsReturns
    \/ VersionExistsReturns
    \/ LocationReturns

SpecExists == InitExists /\ [][ExistsNext]_vars

(***************************************************************************)
(* retryWithBackoff: C1-C3                                                 *)
(***************************************************************************)
RetryDone == rPc \in {"returned", "thrown"}

\* fn rejects on each of its first n invocations
FailsFirst(n) == \A i \in 1..n : ~plan[i].ok

\* C1: for maxRetries >= 1, when fn rejects on its first maxRetries-1
\* invocations and resolves on the next, retryWithBackoff returns that value
\* and fn has been invoked exactly maxRetries times.
C1_SucceedsOnLastAttempt ==
    (RetryDone /\ maxRetries >= 1 /\ FailsFirst(maxRetries - 1) /\ plan[maxRetries].ok)
        => /\ rPc = "returned"
           /\ rResult = plan[maxRetries].value
           /\ calls = maxRetries

C1_Witness ==
    /\ rPc = "returned"
    /\ maxRetries >= 3
    /\ FailsFirst(maxRetries - 1)
    /\ calls = maxRetries

\* C2: for maxRetries >= 1, when fn rejects on every invocation it is invoked
\* exactly maxRetries times and the Error thrown reads
\* '<name> failed after <maxRetries> attempts: <message of the last error>'.
C2_ThrowsAfterAllAttempts ==
    (RetryDone /\ maxRetries >= 1 /\ FailsFirst(maxRetries))
        => /\ rPc = "thrown"
           /\ calls = maxRetries
           /\ rThrown = <<OperationName, "failed after", maxRetries, "attempts:",
                          plan[maxRetries].message>>

C2_Witness ==
    /\ rPc = "thrown"
    /\ maxRetries >= 3
    /\ calls = maxRetries
    /\ plan[maxRetries].message # plan[maxRetries - 1].message

\* C3: the sleep after the k-th failed attempt (k < maxRetries) lasts
\* retryDelay * 2^(k-1) seconds; every failed attempt before the last allowed
\* one is followed by a sleep, and the failure of attempt maxRetries by none.
C3_BackoffDelays ==
    /\ \A i \in 1..Len(sleeps) :
          /\ sleeps[i].after = i
          /\ sleeps[i].after < maxRetries
          /\ sleeps[i].ms = retryDelay * 2^(i - 1) * 1000
    /\ Len(sleeps) = Cardinality({k \in 1..calls : ~plan[k].ok /\ k < maxRetries})
    /\ rPc = "thrown" /\ maxRetries >= 1 => Len(sleeps) = maxRetries - 1

C3_Witness ==
    /\ rPc = "thrown"
    /\ maxRetries >= 3
    /\ retryDelay >= 2
    /\ Len(sleeps) = maxRetries - 1

(***************************************************************************)
(* waitForDeploymentCompletion: C4-C7                                      *)
(***************************************************************************)
\* the feed holds an event of severity ERROR or FATAL
HasFatalOrError(feed) == \E i \in 1..Len(feed) : feed[i].Severity \in {"ERROR", "FATAL"}

\* the place of the first such event, in feed order
FirstFatalOrErrorAt(feed) ==
    CHOOSE i \in 1..Len(feed) :
        /\ feed[i].Severity \in {"ERROR", "FATAL"}
        /\ \A j \in 1..(i - 1) : feed[j].Severity \notin {"ERROR", "FATAL"}

\* the step is a turn of the deployment watcher's loop: a status query is sent
DeployTurn == dPolls' = dPolls + 1

\* C4: in a turn whose status query answers 'Ready' the deployment watcher
\* returns in that turn and does not call describeRecentEvents in it,
\* whatever events the platform has to show.
C4_ReadyReturnsAtOnce ==
    [][(DeployTurn /\ dResp'.present /\ dResp'.Status = "Ready")
          => (dPc' = "returned" /\ dFetched' = 0 /\ dThrown' = <<>>)]_vars

C4_Witness ==
    /\ dPc = "returned"
    /\ dPolls >= 2
    /\ dResp.Status = "Ready"
    /\ HasFatalOrError(pFeed)

\* C5: in a turn whose status query answers a status other than 'Ready' and
\* whose event query shows an ERROR or FATAL event, the deployment watcher
\* throws in that turn the fatal-event error with the message of the first
\* such event of the feed; once it has thrown it sends no further status query.
C5_FatalEventShortCircuit ==
    [][/\ (DeployTurn /\ dResp'.present /\ dResp'.Status # "Ready"
             /\ ~dFetchThrew' /\ HasFatalOrError(pFeed'))
          => /\ dPc' = "thrown"
             /\ dFetched' = 1
             /\ dThrown' = <<"Environment deployment failed - fatal or error event detected:",
                            pFeed'[FirstFatalOrErrorAt(pFeed')].Message>>
       /\ dPc = "thrown" => dPolls' = dPolls]_vars

C5_Witness ==
    /\ dPc = "thrown"
    /\ dPolls >= 2
    /\ dNow < dTimeout * 1000
    /\ dResp.Status = "Updating"
    /\ Len(pFeed) = 2
    /\ pFeed[1].Severity = "FATAL"
    /\ pFeed[2].Severity = "ERROR"
    /\ dThrown = FailedEventError("m-fatal")

\* C6: once the timeout has elapsed the deployment watcher sends no status
\* query any more: it calls describeRecentEvents once and throws 'Deployment
\* timed out after <timeout>s', whatever that call found or whether it failed.
C6_TimeoutAfterOneFetch ==
    [][(dPc = "poll" /\ dNow >= dTimeout * 1000)
          => /\ dPc' = "thrown"
             /\ dPolls' = dPolls
             /\ dFetched' = 1
             /\ dThrown' = <<"Deployment timed out after", dTimeout, "s">>]_vars

C6_Witness ==
    /\ dPc = "thrown"
    /\ dNow >= dTimeout * 1000
    /\ dThrown = <<"Deployment timed out after", dTimeout, "s">>
    /\ dFetched = 1
    /\ ~dFetchThrew
    /\ HasFatalOrError(pFeed)

\* the 'Current status: ..' lines of a log
StatusLines(log) == SelectSeq(log, LAMBDA l : \E s \in Statuses : l = StatusLine(s))

\* the run that saw Updating, Updating, Ready and returned
SawUpdatingUpdatingReady ==
    /\ dPc = "returned"
    /\ dSeen = <<"Updating", "Updating", "Ready">>

\* C7 as claimed: for the statuses Updating, Updating, Ready and no events the
\* deployment watcher returns after 3 turns having logged two status lines,
\* 'Updating' once and 'Ready' once.
C7_AsClaimed ==
    SawUpdatingUpdatingReady
        => /\ dPolls = 3
           /\ Len(StatusLines(dLog)) = 2
           /\ \E i \in 1..2 : StatusLines(dLog)[i] = StatusLine("Updating")
           /\ \E i \in 1..2 : StatusLines(dLog)[i] = StatusLine("Ready")

\* C7, amended: for the statuses Updating, Updating, Ready and no events the
\* deployment watcher returns after 3 turns having logged one status line,
\* 'Current status: Updating' (the repeated status is not logged again), and
\* then the line 'Deployment complete': 'Ready' gets no status line.
C7_OneStatusLineThenComplete ==
    SawUpdatingUpdatingReady
        => /\ dPolls = 3
           /\ dLog = <<WaitingLine, "Current status: Updating", CompleteLine>>

C7_Witness ==
    /\ SawUpdatingUpdatingReady
    /\ StatusLines(dLog) = <<StatusLine("Updating")>>

(***************************************************************************)
(* waitForHealthRecovery: C10-C14                                          *)
(***************************************************************************)
\* the step is a turn of the health watcher's loop: a status query is sent
HealthTurn == hPolls' = hPolls + 1

C11_RedAndReadyFails ==
    [][(HealthTurn /\ hResp'.present /\ hResp'.Health = "Red" /\ hResp'.Status = "Ready")
          => /\ hPc' = "thrown"
             /\ hFetched' = 1
             /\ hThrown' = <<"Environment deployment failed - health is Red">>]_vars

C11_Witness ==
    /\ hPc = "thrown"
    /\ hPolls = 2
    /\ hPrevHealth = "Grey"
    /\ hResp.Health = "Red"
    /\ hResp.Status = "Ready"
    /\ hFetched = 1
    /\ ~hFetchThrew
    /\ HasFatalOrError(pFeed)
    /\ hThrown = HealthRedError

\* C12: in a turn whose query answers health Red with a status other than
\* 'Ready' the health watcher throws nothing, calls describeRecentEvents not
\* at all, and sleeps for the next turn; a later turn can still return.
C12_RedWhileNotReadyGoesOn ==
    [][(HealthTurn /\ hResp'.present /\ hResp'.Health = "Red" /\ hResp'.Status # "Ready")
          => /\ hPc' = "poll"
             /\ hThrown' = <<>>
             /\ hFetched' = 0
             /\ hNow' >= hNow + 15000]_vars

C12_Witness ==
    /\ hPc = "returned"
    /\ hPolls >= 2
    /\ hPrevHealth = "Red"
    /\ hPrevStatus = "Updating"
    /\ hResp.Health = "Green"
    /\ hNow < hTimeout * 1000

\* C13: in every turn whose query answers health Grey or no health the
\* health watcher calls describeRecentEvents once; if that call shows an
\* ERROR or FATAL event the watcher throws in that turn the fatal-event
\* error with the message of the first such event, and otherwise it sleeps
\* for the next turn.
C13_GreyConsultsEvents ==
    [][(HealthTurn /\ hResp'.present /\ hResp'.Health \in {"Grey", Undef})
          => /\ hFetched' = 1
             /\ IF ~hFetchThrew' /\ HasFatalOrError(pFeed')
                  THEN /\ hPc' = "thrown"
                       /\ hThrown' = <<"Environment deployment failed - fatal or error event detected:",
                                      pFeed'[FirstFatalOrErrorAt(pFeed')].Message>>
                  ELSE /\ hPc' = "poll"
                       /\ hThrown' = <<>>]_vars

C13_Witness ==
    /\ hPc = "thrown"
    /\ hPolls >= 2
    /\ hNow < hTimeout * 1000
    /\ hResp.Health = Undef
    /\ hResp.Status = "Ready"
    /\ Len(pFeed) = 2
    /\ pFeed[1].Severity = "INFO"
    /\ pFeed[2].Severity = "ERROR"
    /\ hThrown = FailedEventError("m-error")

\* C14: once the timeout has elapsed the health watcher sends no status query
\* any more: it calls describeRecentEvents once and throws 'Environment
\* health check timed out after <timeout>s', whatever that call found or
\* whether it failed.
C14_HealthTimeoutAfterOneFetch ==
    [][(hPc = "poll" /\ hNow >= hTimeout * 1000)
          => /\ hPc' = "thrown"
             /\ hPolls' = hPolls
             /\ hFetched' = 1
             /\ hThrown' = <<"Environment health check timed out after", hTimeout, "s">>]_vars

C14_Witness ==
    /\ hPc = "thrown"
    /\ hNow >= hTimeout * 1000
    /\ hThrown = <<"Environment health check timed out after", hTimeout, "s">>
    /\ hFetched = 1
    /\ HasFatalOrError(pFeed)
    /\ hPrevHealth = "Red"

(***************************************************************************)
(* The two timeouts: C15                                                   *)
(***************************************************************************)
\* the longest a turn's remote calls take
LongestLatency == CHOOSE l \in CallLatencies : \A m \in CallLatencies : m <= l

\* C15: however long the deployment watcher has run, the health watcher
\* starts with no time elapsed, and it throws its timeout only after turns
\* of its own that add up to its whole timeout.
C15_IndependentBudgets ==
    /\ (hPc = "poll" /\ hPolls = 0) => hNow = 0
    /\ hThrown = <<"Environment health check timed out after", hTimeout, "s">>
          => /\ hNow >= hTimeout * 1000
             /\ hPolls * (15000 + LongestLatency) >= hTimeout * 1000

C15_Witness ==
    /\ dPc = "done"
    /\ dNow >= 40000
    /\ dPolls >= 3
    /\ hPc = "thrown"
    /\ hThrown = HealthTimeoutError(hTimeout)
    /\ hPolls >= 4

(***************************************************************************)
(* The hand-over between the watchers: C8, C9                              *)
(***************************************************************************)
\* the latest EventDate of a set of events, NoDate for the empty set
NewestOf(events) ==
    IF events = {} THEN NoDate
    ELSE CHOOSE d \in {e.EventDate : e \in events} :
            \A e \in events : e.EventDate <= d

NewerPlaces(feed, given) ==
    {i \in 1..Len(feed) : given = NoDate \/ feed[i].EventDate > given}

\* C16: a call given a lastSeenEventDate logs exactly the fetched events
\* whose EventDate is strictly later, in feed order, and reports an error
\* exactly when one of those is an ERROR or FATAL event; a call given no
\* date takes every fetched event as new.
C16_OnlyNewerEventsCount ==
    (tPc = "returned" /\ ~tThrew)
        => /\ Len(tOut.logged) = Cardinality(NewerPlaces(pFeed, tGiven))
           /\ Range(tOut.logged) = {pFeed[i] : i \in NewerPlaces(pFeed, tGiven)}
           /\ tOut.hasError
                 = (\E i \in NewerPlaces(pFeed, tGiven) :
                        pFeed[i].Severity \in {"ERROR", "FATAL"})

C16_Witness ==
    /\ tPc = "returned"
    /\ ~tThrew
    /\ tGiven = 2
    /\ Len(pFeed) = 3
    /\ pFeed[1].EventDate = 1 /\ pFeed[1].Severity = "ERROR"
    /\ pFeed[2].EventDate = 2 /\ pFeed[2].Severity = "ERROR"
    /\ pFeed[3].EventDate = 3 /\ pFeed[3].Severity = "INFO"
    /\ tOut.logged = <<pFeed[3]>>
    /\ ~tOut.hasError

\* the latest of a set of dates, none for the empty set
LatestOf(dates) ==
    IF dates = {} THEN NoDate ELSE CHOOSE d \in dates : \A e \in dates : e <= d

\* C17: the date a call returns is the latest EventDate of the events it
\* took as new, and the date it was given when it took none as new (or none
\* of them has a date, or the query failed); the date its caller keeps is
\* never earlier than the date the caller had.
C17_MarkIsLatestAndNeverDecreases ==
    tPc = "returned"
        => LET newDates == IF tThrew THEN {}
                           ELSE {pFeed[i].EventDate : i \in NewerPlaces(pFeed, tGiven)}
                                    \ {NoDate}
           IN  /\ tOut.lastEventDate
                     = IF newDates = {} THEN tGiven ELSE LatestOf(newDates)
               /\ tMark = tOut.lastEventDate
               /\ tMark >= tGiven

C17_Witness ==
    /\ tPc = "returned"
    /\ ~tThrew
    /\ tGiven = 1
    /\ Len(pFeed) = 3
    /\ pFeed[1].EventDate = 2
    /\ pFeed[2].EventDate = 3
    /\ pFeed[3].EventDate = 1
    /\ tMark = 3

(***************************************************************************)
(* A DescribeEvents query that fails: C18                                  *)
(***************************************************************************)
\* C18: a call of describeRecentEvents whose query throws reports no error
\* and leaves lastSeenEventDate as it was, so the watcher's turn ends as its
\* status query alone decides: the deployment watcher sleeps for the next
\* turn, the health watcher sleeps for the next turn or, on Red with status
\* 'Ready', throws the health error, and either watcher's timeout throws its
\* timeout error.  A 'Ready', Green or Yellow answer returns whatever the
\* event queries do.
C18_FetchFailureChangesNothing ==
    [][/\ (DeployTurn /\ dFetched' = 1 /\ dFetchThrew')
            => (dPc' = "poll" /\ dThrown' = <<>> /\ dLastSeen' = dLastSeen)
       /\ (DeployTurn /\ dResp'.present /\ dResp'.Status = "Ready")
            => dPc' = "returned"
       /\ (dPc = "poll" /\ dPolls' = dPolls /\ dFetched' = 1 /\ dFetchThrew')
            => dThrown' = <<"Deployment timed out after", dTimeout, "s">>
       /\ (HealthTurn /\ hFetched' = 1 /\ hFetchThrew')
            => /\ hLastSeen' = hLastSeen
               /\ IF hResp'.Health = "Red" /\ hResp'.Status = "Ready"
                    THEN hThrown' = <<"Environment deployment failed - health is Red">>
                    ELSE hPc' = "poll" /\ hThrown' = <<>>
       /\ (HealthTurn /\ hResp'.present /\ hResp'.Health \in {"Green", "Yellow"})
            => hPc' = "returned"
       /\ (hPc = "poll" /\ hPolls' = hPolls /\ hFetched' = 1 /\ hFetchThrew')
            => hThrown' = <<"Environment health check timed out after", hTimeout, "s">>]_vars

C18_Witness ==
    /\ dPc = "done"
    /\ hPc = "poll"
    /\ hPolls >= 2
    /\ hFetched = 1
    /\ hFetchThrew
    /\ hResp.Health = "Grey"
    /\ HasFatalOrError(pFeed)
    /\ hLastSeen # NoDate

(***************************************************************************)
(* describeRecentEvents, the severities: C19                               *)
(***************************************************************************)
\* the places of the feed whose event has severity ERROR or FATAL
FatalPlaces(feed) == {i \in 1..Len(feed) : feed[i].Severity \in {"ERROR", "FATAL"}}

\* C19: a call whose query answers reports hasError exactly when a fetched
\* event has severity ERROR or FATAL (WARN, INFO and a missing severity do
\* not count), and then its errorMessage is the message of the first such
\* event in feed order ('No message' if that event has none); every
\* fetched event is logged.
C19_ErrorIffFatalOrError ==
    (tPc = "returned" /\ ~tThrew)
        => /\ tOut.hasError = (FatalPlaces(pFeed) # {})
           /\ tOut.hasError
                 => LET first == CHOOSE i \in FatalPlaces(pFeed) :
                                     \A j \in FatalPlaces(pFeed) : i <= j
                    IN  tOut.errorMessage
                          = IF pFeed[first].Message = Undef THEN "No message"
                            ELSE pFeed[first].Message
           /\ tOut.logged = pFeed

C19_Witness ==
    /\ tPc = "returned"
    /\ ~tThrew
    /\ Len(pFeed) = 3
    /\ pFeed[1].Severity = Undef
    /\ pFeed[2].Severity = "FATAL" /\ pFeed[2].Message = "m2"
    /\ pFeed[3].Severity = "ERROR" /\ pFeed[3].Message = "m1"
    /\ tOut.hasError
    /\ tOut.errorMessage = "m2"

(***************************************************************************)
(* environmentExists: C20                                                  *)
(***************************************************************************)
\* C20: environmentExists returns exists = true exactly when the query
\* answers with an environment whose status is not 'Terminated'; for a
\* 'Terminated' environment it returns exists = false together with the
\* status and health it read, and for no environment (or a query that
\* throws) exists = false alone.
C20_ExistsUnlessTerminated ==
    ePc = "returned"
        => /\ eOut.exists
                 = (~eAnswer.throws /\ eAnswer.present /\ eAnswer.Status # "Terminated")
           /\ IF ~eAnswer.throws /\ eAnswer.present
                THEN eOut.status = eAnswer.Status /\ eOut.health = eAnswer.Health
                ELSE eOut.status = Undef /\ eOut.health = Undef

C20_Witness ==
    /\ ePc = "returned"
    /\ eAnswer.present
    /\ eAnswer.Status = "Terminated"
    /\ eAnswer.Health = "Grey"
    /\ ~eOut.exists
    /\ eOut.status = "Terminated"

\* the functions of aws-operations.ts that send commands, called on their own
InitOps ==
    (BucketOpCalled \/ EnvOpCalled \/ ValidateCalled) /\ RetryOff /\ TailerOff /\ ExistsOff /\ PhaseOff /\ pFeed = <<>> /\ DeployOff
        /\ HealthOff /\ NoHistory

OpsNext ==
    \/ UploadStarts
    \/ HeadBucketSent
    \/ BucketSettled
    \/ OperationSettled
    \/ VersionCreateStarts
    \/ UpdateStarts
    \/ ProfileLookedUp
    \/ RoleLookedUp
    \/ ValidateReturns
    \/ AttemptSucceeds
    \/ AttemptFails
    \/ Exhausted

SpecOps == InitOps /\ [][OpsNext]_vars

(***************************************************************************)
(* C21-C22: the version functions                                          *)
(***************************************************************************)
\* C21: existence checks are fail-soft: when its query throws,
\* applicationVersionExists returns false and environmentExists returns
\* { exists: false }; neither passes an error on to its caller.
C21_ExistenceChecksFailSoft ==
    /\ ePc = "returnedExists"
          => /\ eOut.thrown = <<>>
             /\ eAnswer.throws => eOut.value = FALSE
    /\ (ePc = "returned" /\ eAnswer.throws)
          => eOut = [exists |-> FALSE, status |-> Undef, health |-> Undef]

C21_Witness ==
    /\ ePc = "returnedExists"
    /\ eAnswer.throws
    /\ eOut.value = FALSE
    /\ eLog # <<>>

\* C22: getVersionS3Location returns { bucket, key } only when the version is
\* found with both bucket and key present; a version found without bucket or
\* without key fails as an incomplete source bundle, and no version returned
\* fails as version not found.
C22_LocationOrError ==
    ePc = "returnedLocation"
        => LET found == ~eAnswer.throws /\ eAnswer.listed /\ eAnswer.versions # <<>>
               first == eAnswer.versions[1]
               Present(x) == x # Undef /\ x # ""
               complete == Present(first.S3Bucket) /\ Present(first.S3Key)
           IN  /\ eOut.thrown = <<>> <=> (found /\ complete)
               /\ eOut.thrown = <<>>
                     => eOut.value = [bucket |-> first.S3Bucket, key |-> first.S3Key]
               /\ (found /\ ~complete)
                     => /\ Len(eOut.thrown) = 7
                        /\ eOut.thrown[5] = "has incomplete S3 source bundle information"
               /\ (~eAnswer.throws /\ ~found)
                     => eOut.thrown = <<"Failed to get S3 location for application version",
                                        eName, "Version", eName, "not found">>

C22_Witness ==
    /\ ePc = "returnedLocation"
    /\ Len(eAnswer.versions) = 1
    /\ eAnswer.versions[1].S3Bucket = "set"
    /\ eAnswer.versions[1].S3Key = ""
    /\ eOut.thrown # <<>>

(***************************************************************************)
(* C23-C25: createS3Bucket and uploadToS3                                  *)
(***************************************************************************)
\* C23: createS3Bucket sends its HeadBucket probe exactly once and outside
\* retryWithBackoff. When the probe succeeds no CreateBucket is sent; when it
\* fails, for whatever reason, CreateBucket is sent under retryWithBackoff, so
\* the commands sent are the probe and one CreateBucket per attempt, and a
\* create that fails at every attempt throws the error of retryWithBackoff.
C23_ProbeOnceThenCreate ==
    (oOp = "createS3Bucket" /\ oPc # "probe")
        => LET head == [name |-> "HeadBucket", Bucket |-> oIn.bucket]
           IN  /\ Len(Sent) >= 1
               /\ Sent[1] = head
               /\ \A i \in 2..Len(Sent) : Sent[i].name = "CreateBucket"
               /\ oWorld.probe = "ok" => (Sent = <<head>> /\ oPc = "returned" /\ rPc = "off")
               /\ oWorld.probe # "ok"
                     => /\ rPc # "off"
                        /\ maxRetries = oIn.maxRetries
                        /\ retryDelay = oIn.retryDelay
                        /\ Len(Sent) = 1 + calls
                        /\ calls <= oIn.maxRetries
                        /\ oPc = "returned" => (rPc = "returned" /\ plan[calls].ok)
                        /\ oPc = "thrown"
                              => /\ calls = oIn.maxRetries
                                 /\ \A i \in 1..calls : ~plan[i].ok
                                 /\ oThrown = <<"Create S3 bucket", "failed after",
                                                oIn.maxRetries, "attempts:",
                                                IF calls = 0 THEN Undef ELSE "AccessDenied">>
                        /\ rPc = "thrown" => oPc \in {"retrying", "thrown"}

C23_Witness ==
    /\ oOp = "createS3Bucket"
    /\ oPc = "thrown"
    /\ oWorld.probe = "Forbidden"
    /\ oWorld.bucketExists
    /\ Len(Sent) = 4

\* uploadToS3 runs with bucket creation disabled and the bucket is not there
NoBucketNoCreation ==
    /\ oOp = "uploadToS3"
    /\ ~oIn.createBucketIfNotExists
    /\ ~oWorld.bucketExists

\* C24 as stated: with creation disabled and the bucket missing, the phase
\* fails while ensuring the bucket, before any upload call is issued.
C24_AsClaimed ==
    NoBucketNoCreation
        => /\ \A i \in 1..Len(Sent) : Sent[i].name # "PutObject"
           /\ oPc # "returned"

\* C24 as amended: with creation disabled and the bucket missing, uploadToS3
\* sends no probe and no CreateBucket; it sends PutObject at each of its
\* maxRetries attempts and fails with the error of retryWithBackoff for
\* "Upload to S3".
C24_FailsAtTheUpload ==
    NoBucketNoCreation
        => /\ \A i \in 1..Len(Sent) : Sent[i] = PutObjectCommand(oIn)
           /\ oPc # "returned"
           /\ oPc = "thrown"
                 => /\ Len(Sent) = oIn.maxRetries
                    /\ oThrown = <<"Upload to S3", "failed after", oIn.maxRetries,
                                   "attempts:",
                                   IF oIn.maxRetries = 0 THEN Undef ELSE "NoSuchBucket">>

C24_Witness ==
    /\ NoBucketNoCreation
    /\ oPc = "thrown"
    /\ Len(Sent) = 3
    /\ Sent[3].name = "PutObject"

CallerSettings(text) ==
    IF ~text.empty /\ text.parses /\ text.value.array THEN text.value.items ELSE <<>>

\* C26: the option settings of every CreateEnvironment command are the
\* IamInstanceProfile entry, the ServiceRole entry, then the caller's settings
\* in their order; nothing is reordered or dropped, so the list is 2 longer
\* than the caller's, also when the caller's list holds the same role entries.
C26_RolesFirstThenCallerSettings ==
    \A i \in 1..Len(Sent) :
        Sent[i].name = "CreateEnvironment"
            => LET list == Sent[i].OptionSettings.list
                   custom == CallerSettings(oIn.optionSettings)
               IN  /\ Sent[i].OptionSettings.set
                   /\ Len(list) = 2 + Len(custom)
                   /\ list[1] = [Namespace |-> "aws:autoscaling:launchconfiguration",
                                 OptionName |-> "IamInstanceProfile",
                                 Value |-> oIn.iamInstanceProfile]
                   /\ list[2] = [Namespace |-> "aws:elasticbeanstalk:environment",
                                 OptionName |-> "ServiceRole",
                                 Value |-> oIn.serviceRole]
                   /\ \A k \in 1..Len(custom) : list[2 + k] = custom[k]

C26_Witness ==
    /\ oOp = "createEnvironment"
    /\ oPc = "returned"
    /\ Len(Sent) = 4
    /\ Sent[4].name = "CreateEnvironment"
    /\ Len(Sent[4].OptionSettings.list) = 4
    /\ Sent[4].OptionSettings.list[3].OptionName = "ServiceRole"
    /\ Sent[4].OptionSettings.list[4].OptionName = "STAGE"

\* C27: createEnvironment looks up the instance profile, then the service
\* role, before any CreateEnvironment command: when a lookup fails it throws
\* that the role does not exist and no CreateEnvironment is ever sent, and
\* when the instance profile lookup fails the service role is not looked up.
C27_RolesVerifiedBeforeCreate ==
    oOp = "createEnvironment"
        => /\ \A i \in 1..Len(Sent) :
                 /\ Sent[i].name = "GetInstanceProfile" => i = 1
                 /\ Sent[i].name = "GetRole" => (i = 2 /\ oWorld.profile)
                 /\ Sent[i].name = "CreateEnvironment"
                       => (i >= 3 /\ oWorld.profile /\ oWorld.role)
           /\ Len(Sent) >= 2 => Sent[2].name = "GetRole"
           /\ (~oWorld.profile /\ oPc # "called")
                 => /\ oPc = "thrown"
                    /\ oThrown = <<"Instance profile", oIn.iamInstanceProfile, "does not exist">>
                    /\ Len(Sent) = 1
           /\ (oWorld.profile /\ ~oWorld.role /\ oPc \notin {"called", "lookup"})
                 => /\ oPc = "thrown"
                    /\ oThrown = <<"Service role", oIn.serviceRole, "does not exist">>
                    /\ Len(Sent) = 2

C27_Witness ==
    /\ oOp = "createEnvironment"
    /\ oPc = "thrown"
    /\ oWorld.profile
    /\ ~oWorld.role
    /\ Len(Sent) = 2
    /\ oIn.maxRetries = 3

\* C28: updateEnvironment injects no role entry and verifies no role: every
\* command it sends is an UpdateEnvironment carrying the new version label and
\* the caller's option settings as they are, or none when the caller gave
\* none; no IAM lookup is sent.
C28_UpdateSendsCallerSettingsOnly ==
    oOp = "updateEnvironment"
        => \A i \in 1..Len(Sent) :
              /\ Sent[i].name = "UpdateEnvironment"
              /\ Sent[i].VersionLabel = oIn.versionLabel
              /\ Sent[i].EnvironmentName = oIn.environmentName
              /\ Sent[i].OptionSettings.list = CallerSettings(oIn.optionSettings)
              /\ Sent[i].OptionSettings.set
                    = (~oIn.optionSettings.empty /\ oIn.optionSettings.value.array)

C28_Witness ==
    /\ oOp = "updateEnvironment"
    /\ oPc = "returned"
    /\ Len(Sent) = 2
    /\ Len(Sent[2].OptionSettings.list) = 2
    /\ Sent[2].OptionSettings.list[1].OptionName = "STAGE"
    /\ Sent[2].OptionSettings.list[2].OptionName = "IamInstanceProfile"

\* a selector text that is set
Given(selector) == selector # Undef /\ selector # ""

\* C29: validation rejects a configuration that gives both or neither of
\* solution-stack-name and platform-arn, and what it accepts has exactly one;
\* no UpdateEnvironment or CreateEnvironment command carries both
\* SolutionStackName and PlatformArn, and each carries exactly one when
\* exactly one is given.
C29_ExactlyOnePlatformSelector ==
    /\ (oOp = "validateRequiredInputs" /\ oPc = "returned")
          => /\ Given(oIn.solutionStackName) = Given(oIn.platformArn) => ~oOut.valid
             /\ oOut.valid => Given(oOut.solutionStackName) # Given(oOut.platformArn)
    /\ oOp \in {"updateEnvironment", "createEnvironment"}
          => \A i \in 1..Len(Sent) :
                Sent[i].name \in {"UpdateEnvironment", "CreateEnvironment"}
                    => LET sent == Sent[i].Platform
                       IN  /\ ~(Given(sent.SolutionStackName) /\ Given(sent.PlatformArn))
                           /\ Given(oIn.solutionStackName) # Given(oIn.platformArn)
                                 => /\ Given(sent.SolutionStackName) # Given(sent.PlatformArn)
                                    /\ sent.SolutionStackName
                                          = IF Given(oIn.solutionStackName)
                                              THEN oIn.solutionStackName ELSE Undef
                                    /\ sent.PlatformArn
                                          = IF Given(oIn.platformArn)
                                              THEN oIn.platformArn ELSE Undef

C29_Witness ==
    /\ oOp = "createEnvironment"
    /\ oPc = "returned"
    /\ oIn.solutionStackName = "stack"
    /\ oIn.platformArn = "arn"
    /\ Sent[Len(Sent)].Platform = [SolutionStackName |-> "stack", PlatformArn |-> Undef]

(***************************************************************************)
(* C30: the mutating commands                                              *)
(***************************************************************************)
MutatingCommands ==
    {"PutObject", "CreateBucket", "CreateApplicationVersion", "UpdateEnvironment",
     "CreateEnvironment"}

\* C30: a mutating command is sent only by an attempt of retryWithBackoff
\* running with the maxRetries and retryDelay the function was called with;
\* and when every attempt has failed the function throws the error of
\* retryWithBackoff: it sends nothing more and does not return.
C30_MutatingCallsUnderRetry ==
    [][/\ (Len(Sent') > Len(Sent) /\ Sent'[Len(Sent')].name \in MutatingCommands)
             => /\ Len(Sent') = Len(Sent) + 1
                /\ rPc = "loop"
                /\ attempt <= maxRetries
                /\ calls' = calls + 1
                /\ UNCHANGED <<oSent, oCommand, maxRetries, retryDelay>>
                /\ maxRetries = oIn.maxRetries
                /\ retryDelay = oIn.retryDelay
       /\ (oPc = "retrying" /\ rPc = "thrown")
             => /\ oPc' = "thrown"
                /\ oThrown' = <<OperationNames[oCommand.name], "failed after",
                                oIn.maxRetries, "attempts:", lastError>>
                /\ Sent' = Sent
                /\ UNCHANGED oOut
       /\ oPc' = "returned" => rPc' # "thrown"
      ]_vars

C30_Witness ==
    /\ oOp = "uploadToS3"
    /\ oPc = "thrown"
    /\ rPc = "thrown"
    /\ oIn.maxRetries = 2
    /\ Len(Sent) = 3
    /\ Sent[1].name = "HeadBucket"
    /\ Sent[2].name = "CreateBucket"
    /\ Sent[3].name = "CreateBucket"

(***************************************************************************)
(* retryWithBackoff with maxRetries = 0: C31                               *)
(***************************************************************************)
\* C31: with maxRetries = 0 the loop body never runs: fn is never invoked,
\* nothing is slept and no warning is written; the call never returns a value
\* and it throws '<name> failed after 0 attempts: undefined', lastError being
\* still undefined.
C31_ZeroRetriesZeroAttempts ==
    (rPc # "off" /\ maxRetries = 0)
        => /\ calls = 0
           /\ sleeps = <<>>
           /\ warnings = <<>>
           /\ lastError = Undef
           /\ rPc # "returned"
           /\ rResult = Undef
           /\ rPc = "thrown"
                 => rThrown = <<OperationName, "failed after", 0, "attempts:", Undef>>

C31_Witness ==
    /\ rPc = "thrown"
    /\ maxRetries = 0
    /\ calls = 0
    /\ plan[1].ok

(***************************************************************************)
(* max-retries = 0 in the functions that send commands: C32                *)
(***************************************************************************)
\* C32: with maxRetries = 0 every wrapped call is still attempted once: when
\* the retryWithBackoff of a function is over, its command has been sent
\* exactly once, the call has succeeded if that attempt succeeded, and has
\* failed, without a second attempt, if it failed.
C32_AsClaimed ==
    (oPc = "retrying" /\ rPc \in {"returned", "thrown"} /\ oIn.maxRetries = 0)
        => /\ calls = 1
           /\ plan[1].ok => rPc = "returned"
           /\ ~plan[1].ok => rPc = "thrown"

\* the case: the only command of a function would have succeeded at its first
\* attempt, and the function has thrown without sending it
C32_Witness ==
    /\ oOp = "updateEnvironment"
    /\ oIn.maxRetries = 0
    /\ oPc = "thrown"
    /\ rPc = "thrown"
    /\ plan[1].ok
    /\ Sent = <<>>
    /\ oThrown = <<"Update environment", "failed after", 0, "attempts:", Undef>>

(***************************************************************************)
(* The status query of the watchers: C33                                   *)
(***************************************************************************)
\* C33: a read-only query is never sent unretried with its failure going up
\* to the caller: in particular a polling cycle whose DescribeEnvironments
\* query fails does not end waitForDeploymentCompletion or
\* waitForHealthRecovery with an error.
C33_AsClaimed ==
    /\ dResp.throws => dPc # "thrown"
    /\ hResp.throws => hPc # "thrown"

\* the case: the deployment watcher has returned, and after two good polls
\* the third status query of the health watcher fails: the watcher has thrown
\* that error
C33_Witness ==
    /\ dPc = "done"
    /\ hPolls = 3
    /\ hResp.throws
    /\ hPc = "thrown"
    /\ hThrown = SdkError

(***************************************************************************)
(* The version phase (section 4.3 of the specification, steps 1 and 2), run*)
(* MaxRuns times with the same inputs against one platform. Its caller is  *)
(* not among the sources: the order of the calls is the specification's,   *)
(* the calls are the functions of aws-operations.ts modelled above.        *)
(***************************************************************************)
\* what DescribeApplicationVersions answers for the label when it answers
StoreAnswer(store) ==
    [throws |-> FALSE, listed |-> TRUE,
     versions |-> IF store.version
                    THEN <<[S3Bucket |-> store.S3Bucket, S3Key |-> store.S3Key]>>
                    ELSE <<>>]

\* the query rejects
QueryThrows == [throws |-> TRUE, listed |-> FALSE, versions |-> <<>>]

\* (for C34) the reuse branch is taken when the version was not found
ReusesVersionWhenAbsent(reuse, exists) == reuse /\ ~exists

\* step 1: "If reuse is enabled and applicationVersionExists"
ReusesVersion(reuse, exists) == reuse /\ exists

\* the functions of aws-operations.ts are not running
OpsReset ==
    /\ oPc' = "off"
    /\ oOp' = Undef
    /\ oIn' = <<>>
    /\ oWorld' = <<>>
    /\ oSent' = <<>>
    /\ oCommand' = [name |-> Undef]
    /\ oOut' = <<>>
    /\ oThrown' = <<>>

RetryReset ==
    /\ rPc' = "off"
    /\ maxRetries' = 0
    /\ retryDelay' = 1
    /\ plan' = <<>>
    /\ attempt' = 1
    /\ calls' = 0
    /\ lastError' = Undef
    /\ sleeps' = <<>>
    /\ warnings' = <<>>
    /\ rResult' = Undef
    /\ rThrown' = <<>>

\* the names of the commands sent
NamesOf(sent) == [i \in 1..Len(sent) |-> sent[i].name]

\* the run in progress is over: its record is closed and the next run, if
\* there is one, can start
RunOver(outcome, location, sent) ==
    /\ vRuns' = [vRuns EXCEPT ![Len(vRuns)] =
                    [@ EXCEPT !.outcome = outcome, !.location = location, !.sent = sent]]
    /\ vPc' = IF Len(vRuns) < MaxRuns THEN "start" ELSE "done"

\* the phase is about to run for the first time. The platform has the version
\* of the label or not, with a source bundle that may lack its bucket, and has
\* the bucket of the uploads or not.
PhaseCalled ==
    /\ vPc = "start"
    /\ vIn \in [reuse : BOOLEAN, createBucketIfNotExists : BOOLEAN,
                maxRetries : 0..MaxPhaseRetries, retryDelay : {1}]
    /\ vStore \in {[version |-> FALSE, S3Bucket |-> Undef, S3Key |-> Undef, bucket |-> b] :
                      b \in BOOLEAN}
                   \cup {[version |-> TRUE, S3Bucket |-> f, S3Key |-> "set", bucket |-> TRUE] :
                      f \in {"", "set"}}
    /\ vRuns = <<>>

\* step 1 of a run, and the start of step 2 when the version is not reused:
\* with reuse enabled applicationVersionExists is asked, and when it says yes
\* getVersionS3Location resolves the bundle and the run is over; otherwise the
\* package is handed to uploadToS3
PhaseResolves ==
    /\ vPc = "start"
    /\ \E asked \in {StoreAnswer(vStore), QueryThrows},
          located \in {StoreAnswer(vStore), QueryThrows},
          probe \in {"ok", "NotFound", "Forbidden"} :
        LET exists == applicationVersionExists(asked).value
            location == getVersionS3Location(located, "v1")
            run == [query |-> IF ~vIn.reuse THEN "none"
                              ELSE IF asked.throws THEN "threw"
                              ELSE IF exists THEN "found" ELSE "absent",
                    outcome |-> "running", location |-> <<>>, sent |-> <<>>]
        IN
        /\ ~vIn.reuse => asked = StoreAnswer(vStore)
        /\ ~ReusesVersion(vIn.reuse, exists) => located = StoreAnswer(vStore)
        /\ IF ReusesVersion(vIn.reuse, exists)
             THEN /\ probe = "ok"
                  /\ vRuns' = Append(vRuns,
                        [run EXCEPT !.outcome = IF location.thrown = <<>> THEN "reused"
                                                 ELSE "failed",
                                    !.location = IF location.thrown = <<>>
                                                   THEN <<location.value.bucket,
                                                          location.value.key>>
                                                   ELSE <<>>])
                  /\ vPc' = IF Len(vRuns) + 1 < MaxRuns THEN "start" ELSE "done"
                  /\ UNCHANGED opVars
             ELSE /\ probe = "ok" => vStore.bucket
                  /\ probe = "NotFound" => ~vStore.bucket
                  /\ vRuns' = Append(vRuns, run)
                  /\ vPc' = "uploading"
                  /\ oOp' = "uploadToS3"
                  /\ oPc' = "called"
                  /\ oIn' = [region |-> "eu-west-1", accountId |-> "123456789012",
                             applicationName |-> "my-app", versionLabel |-> "v1",
                             packagePath |-> <<"app", ".", "zip">>,
                             maxRetries |-> vIn.maxRetries,
                             retryDelay |-> vIn.retryDelay,
                             createBucketIfNotExists |-> vIn.createBucketIfNotExists]
                  /\ oWorld' = [bucketExists |-> vStore.bucket, probe |-> probe]
                  /\ UNCHANGED <<oSent, oCommand, oOut, oThrown>>
    /\ UNCHANGED <<vIn, vStore>>
    /\ UNCHANGED <<retryVars, pFeed, deployVars, healthVars, histVars, tailVars, existsVars>>

\* uploadToS3 has returned { bucket, key }: createApplicationVersion is
\* called with them
PhaseCreates ==
    /\ vPc = "uploading"
    /\ oPc = "returned"
    /\ vPc' = "creating"
    /\ vStore' = [vStore EXCEPT !.bucket = TRUE]
    /\ oOp' = "createApplicationVersion"
    /\ oPc' = "called"
    /\ oIn' = [applicationName |-> "my-app", versionLabel |-> "v1",
               maxRetries |-> vIn.maxRetries, retryDelay |-> vIn.retryDelay,
               s3Bucket |-> oOut.bucket, s3Key |-> oOut.key,
               autoCreateApplication |-> FALSE]
    /\ oSent' = Sent
    /\ oCommand' = [name |-> Undef]
    /\ oOut' = <<>>
    /\ RetryReset
    /\ UNCHANGED <<oWorld, oThrown, vIn, vRuns>>
    /\ UNCHANGED <<pFeed, deployVars, healthVars, histVars, tailVars, existsVars>>

\* uploadToS3 has thrown, or createApplicationVersion has returned or thrown:
\* the run is over. A successful CreateApplicationVersion leaves the version
\* on the platform with the bundle of the command (an existing version keeps
\* its own); a bucket that was created stays.
PhaseEnds ==
    /\ \/ vPc = "uploading" /\ oPc = "thrown"
       \/ vPc = "creating" /\ oPc \in {"returned", "thrown"}
    /\ RunOver(IF oPc = "returned" THEN "created" ELSE "failed", <<>>, NamesOf(Sent))
    /\ vStore' =
          IF oPc = "returned" /\ ~vStore.version
            THEN [version |-> TRUE, S3Bucket |-> "set", S3Key |-> "set", bucket |-> TRUE]
            ELSE [vStore EXCEPT !.bucket =
                     \/ vStore.bucket
                     \/ \E i, j \in 1..Len(Sent) :
                           /\ i < j
                           /\ Sent[i].name = "CreateBucket"
                           /\ Sent[j].name = "PutObject"]
    /\ OpsReset
    /\ RetryReset
    /\ UNCHANGED vIn
    /\ UNCHANGED <<pFeed, deployVars, healthVars, histVars, tailVars, existsVars>>

InitVersion ==
    PhaseCalled /\ OpsOff /\ RetryOff /\ TailerOff /\ ExistsOff /\ pFeed = <<>> /\ DeployOff
        /\ HealthOff /\ NoHistory

VersionNext ==
    \/ PhaseResolves
    \/ UploadStarts
    \/ HeadBucketSent
    \/ BucketSettled
    \/ PhaseCreates
    \/ VersionCreateStarts
    \/ OperationSettled
    \/ PhaseEnds
    \/ AttemptSucceeds
    \/ AttemptFails
    \/ Exhausted

SpecVersion == InitVersion /\ [][VersionNext]_vars

(***************************************************************************)
(* Version reuse: C34                                                      *)
(***************************************************************************)
\* run r of the phase is over, reuse is enabled, and the run before it ended
\* with the version in place (created or reused)
SecondRun(r) ==
    /\ vIn.reuse
    /\ vRuns[r].outcome # "running"
    /\ vRuns[r - 1].outcome \in {"created", "reused"}

Uploads(run) ==
    \E i \in 1..Len(run.sent) : run.sent[i] \in {"PutObject", "CreateApplicationVersion"}

Digits == {"0", "1", "2", "3", "4", "5", "6", "7", "8", "9"}

DigitValue(c) == (CHOOSE i \in 1..10 : <<"0", "1", "2", "3", "4", "5", "6", "7", "8", "9">>[i] = c) - 1

RECURSIVE DigitsValue(_, _, _)
\* the number written by the digits text[from..to]
DigitsValue(text, from, to) ==
    IF to < from THEN 0
    ELSE DigitsValue(text, from, to - 1) * 10 + DigitValue(text[to])

\* parseInt(text, 10): an optional sign, then the longest run of digits; what
\* follows the digits is ignored, and without a digit the result is NaN
ParseInt(text) ==
    LET signed == Len(text) > 0 /\ text[1] \in {"-", "+"}
        from == IF signed THEN 2 ELSE 1
        stops == {i \in from..Len(text) : text[i] \notin Digits}
        to == IF stops = {} THEN Len(text)
              ELSE (CHOOSE i \in stops : \A j \in stops : i <= j) - 1
    IN  IF to < from THEN [nan |-> TRUE, value |-> 0]
        ELSE [nan |-> FALSE,
              value |-> IF signed /\ text[1] = "-" THEN 0 - DigitsValue(text, from, to)
                        ELSE DigitsValue(text, from, to)]

\* core.getInput(name) || fallback
InputOr(text, fallback) == IF text = <<>> THEN fallback ELSE text

\* validateNumericInputs: the first test that fails sets the failure and
\* returns { valid: false }
validateNumericInputs(in) ==
    LET deploymentTimeout == ParseInt(InputOr(in.deploymentTimeout, <<"9", "0", "0">>))
        retries == ParseInt(InputOr(in.maxRetries, <<"3">>))
        delay == ParseInt(InputOr(in.retryDelay, <<"5">>))
        Fails(message) == [valid |-> FALSE, failed |-> message, deploymentTimeout |-> 0,
                           maxRetries |-> 0, retryDelay |-> 0]
    IN  IF deploymentTimeout.nan THEN Fails("Deployment timeout must be a number")
        ELSE IF deploymentTimeout.value < 60
          THEN Fails("Deployment timeout must be at least 60 seconds")
        ELSE IF deploymentTimeout.value > 3600
          THEN Fails("Deployment timeout cannot exceed 3600 seconds (1 hour)")
        ELSE IF retries.nan THEN Fails("Max retries must be a number")
        ELSE IF retries.value < 0 THEN Fails("Max retries cannot be negative")
        ELSE IF retries.value > 10 THEN Fails("Max retries cannot exceed 10")
        ELSE IF delay.nan THEN Fails("Retry delay must be a number")
        ELSE IF delay.value < 1 THEN Fails("Retry delay must be at least 1 second")
        ELSE IF delay.value > 60 THEN Fails("Retry delay cannot exceed 60 seconds")
        ELSE [valid |-> TRUE, failed |-> Undef, deploymentTimeout |-> deploymentTimeout.value,
              maxRetries |-> retries.value, retryDelay |-> delay.value]

\* parseIamRolesFromOptionSettings(text, true) throws: a role entry with a
\* value is missing (the text is an array here, validateRequiredInputs has
\* seen to it)
IamRolesMissing(text) ==
    LET items == text.value.items
        Has(namespace, optionName) ==
            \E i \in 1..Len(items) : /\ items[i].Namespace = namespace
                                     /\ items[i].OptionName = optionName
                                     /\ items[i].Value # ""
    IN  \/ ~Has("aws:autoscaling:launchconfiguration", "IamInstanceProfile")
        \/ ~Has("aws:elasticbeanstalk:environment", "ServiceRole")

\* checkInputConflicts: the warnings written, in order
checkInputConflicts(in, numeric) ==
    (IF in.packageAndExcludePatterns THEN <<"exclude-patterns will be ignored">> ELSE <<>>)
    \o (IF in.createApplicationIfNotExists /\ ~in.createEnvironmentIfNotExists
          THEN <<"the environment will NOT be created">> ELSE <<>>)
    \o (IF in.useExistingApplicationVersionIfAvailable /\ numeric.deploymentTimeout < 120
          THEN <<"low deployment-timeout">> ELSE <<>>)
    \o (IF numeric.maxRetries = 0 THEN <<"max-retries is set to 0">> ELSE <<>>)
    \o (IF ~in.createS3BucketIfNotExists
          THEN <<"create-s3-bucket-if-not-exists is false">> ELSE <<>>)

\* validateAllInputs
validateAllInputs(in) ==
    LET required == validateRequiredInputs(in.required)
        numeric == validateNumericInputs(in)
        Fails(message) == [valid |-> FALSE, failed |-> message, deploymentTimeout |-> 0,
                           maxRetries |-> 0, retryDelay |-> 0, warnings |-> <<>>]
    IN  IF ~required.valid THEN Fails(required.failed)
        ELSE IF ~numeric.valid THEN Fails(numeric.failed)
        ELSE IF ~in.versionLabelFits
          THEN Fails("Version label must be between 1 and 100 characters")
        ELSE IF in.createEnvironmentIfNotExists /\ in.required.optionSettings.empty
          THEN Fails("option-settings is required when creating a new environment")
        ELSE IF in.createEnvironmentIfNotExists /\ IamRolesMissing(in.required.optionSettings)
          THEN Fails("option-settings must include the IAM role settings")
        ELSE [valid |-> TRUE, failed |-> Undef,
              deploymentTimeout |-> numeric.deploymentTimeout,
              maxRetries |-> numeric.maxRetries, retryDelay |-> numeric.retryDelay,
              warnings |-> checkInputConflicts(in, numeric)]

\* validateAllInputs is called with the inputs of the workflow
ValidateAllCalled ==
    LET Other == [array |-> FALSE, items |-> <<>>]
        Roles == BaseOptionSettings("ec2-role", "svc-role")
        Texts == {[empty |-> TRUE, parses |-> FALSE, value |-> Other]}
                   \cup {[empty |-> FALSE, parses |-> TRUE,
                          value |-> [array |-> TRUE, items |-> a]] :
                            a \in {<<>>, Roles, <<Roles[1]>>}}
        Required == {[solutionStackName |-> stack, platformArn |-> "",
                      regionWellFormed |-> TRUE, arnWellFormed |-> TRUE,
                      arnRegionMatches |-> TRUE, applicationNameFits |-> TRUE,
                      environmentNameFits |-> TRUE, environmentNameWellFormed |-> TRUE,
                      optionSettings |-> t] : stack \in {"", "stack"}, t \in Texts}
    IN  /\ oOp = "validateAllInputs"
        /\ oPc = "called"
        /\ oIn \in [required : Required,
                     deploymentTimeout : {<<>>, <<"i", "n", "v", "a", "l", "i", "d">>,
                                          <<"5", "9">>, <<"6", "0">>, <<"3", "6", "0", "0">>,
                                          <<"3", "6", "0", "1">>, <<"6", "0", "s">>},
                     maxRetries : {<<>>, <<"x">>, <<"-", "1">>, <<"0">>, <<"1", "0">>,
                                   <<"1", "1">>, <<"3", "x">>},
                     retryDelay : {<<>>, <<"0">>, <<"1">>, <<"6", "0">>, <<"6", "1">>,
                                   <<"1", ".", "5">>},
                     versionLabelFits : BOOLEAN,
                     packageAndExcludePatterns : BOOLEAN,
                     createApplicationIfNotExists : BOOLEAN,
                     createEnvironmentIfNotExists : BOOLEAN,
                     useExistingApplicationVersionIfAvailable : BOOLEAN,
                     createS3BucketIfNotExists : BOOLEAN]
        /\ oWorld = <<>>
        /\ oSent = <<>>
        /\ oCommand = [name |-> Undef]
        /\ oOut = <<>>
        /\ oThrown = <<>>

\* the body of validateAllInputs runs
ValidateAllReturns ==
    /\ oPc = "called"
    /\ oOp = "validateAllInputs"
    /\ oOut' = validateAllInputs(oIn)
    /\ oPc' = "returned"
    /\ UNCHANGED <<retryVars, oOp, oIn, oWorld, oSent, oCommand, oThrown>>
    /\ UNCHANGED <<pFeed, deployVars, healthVars, histVars, tailVars, existsVars, phaseVars>>

InitValidate ==
    ValidateAllCalled /\ RetryOff /\ TailerOff /\ ExistsOff /\ PhaseOff /\ pFeed = <<>>
        /\ DeployOff /\ HealthOff /\ NoHistory

ValidateNext == ValidateAllReturns

SpecValidate == InitValidate /\ [][ValidateNext]_vars

(***************************************************************************)
(* The numeric inputs: C35                                                 *)
(***************************************************************************)
\* the text writes a number: an optional sign and digits, nothing else
NumericText(text) ==
    LET from == IF Len(text) > 0 /\ text[1] \in {"-", "+"} THEN 2 ELSE 1
    IN  /\ from <= Len(text)
        /\ \A i \in from..Len(text) : text[i] \in Digits

\* the input is unset, or is a number of lo..hi
UnsetOrWithin(text, lo, hi) ==
    text = <<>> \/ (NumericText(text) /\ ParseInt(text).value \in lo..hi)

\* what holds of the code: a valid result carries values within the ranges,
\* the defaults for unset inputs, and an invalid one carries a failure message
ValidOnlyInRange ==
    oPc = "returned" =>
        IF oOut.valid
          THEN /\ oOut.deploymentTimeout \in 60..3600
               /\ oOut.maxRetries \in 0..10
               /\ oOut.retryDelay \in 1..60
               /\ oIn.deploymentTimeout = <<>> => oOut.deploymentTimeout = 900
               /\ oIn.maxRetries = <<>> => oOut.maxRetries = 3
               /\ oIn.retryDelay = <<>> => oOut.retryDelay = 5
          ELSE oOut.failed # Undef

\* C35: validateAllInputs returns valid = true only with deploymentTimeout in
\* 60..3600, maxRetries in 0..10 and retryDelay in 1..60 (900, 3 and 5 when
\* unset), and an input that is not a number, or is one out of its range,
\* makes it return valid = false with a failure message.
C35_AsClaimed ==
    /\ ValidOnlyInRange
    /\ (oPc = "returned" /\ oOut.valid)
          => /\ UnsetOrWithin(oIn.deploymentTimeout, 60, 3600)
             /\ UnsetOrWithin(oIn.maxRetries, 0, 10)
             /\ UnsetOrWithin(oIn.retryDelay, 1, 60)

\* the case: max-retries is '3x', and the result is valid with maxRetries = 3
C35_Witness ==
    /\ oPc = "returned"
    /\ oIn.maxRetries = <<"3", "x">>
    /\ ~NumericText(oIn.maxRetries)
    /\ oOut.valid
    /\ oOut.maxRetries = 3

(***************************************************************************)
(* The first cycle of the deployment watcher: C36                          *)
(***************************************************************************)
\* events of any age: with a date from the oldest to the latest the platform
\* knows, or with none. The watcher is not told when the deployment started
\* and compares no date, so each of them may be older than the deployment.
DatedEvents ==
    EventsOf({NoDate} \cup (1..MaxEventDate), {"ERROR"}, {"m1"})
        \cup EventsOf({MaxEventDate}, {"INFO"}, {"m1"})
        \cup EventsOf({1}, {"FATAL"}, {"m-old"})

DatedFeeds == FeedsOf(DatedEvents)

DeployDatedNext ==
    \/ DeployPoll(DatedFeeds) /\ UNCHANGED histVars
    \/ DeployTimeout(DatedFeeds) /\ UNCHANGED histVars

\* waitForDeploymentCompletion of monitoring.ts on a platform with events of
\* any age
SpecDeployDated == InitDeploy /\ [][DeployDatedNext]_vars

\* C36: in its first turn the deployment watcher holds every fetched event for
\* new: when the first status is not 'Ready' and the events fetched hold one of
\* severity ERROR or FATAL, of whatever date, the watcher logs all of them
\* and throws in that turn the fatal-event error with the message of the
\* first such event.
C36_FirstCycleFailsOnAnyError ==
    [][(dPolls = 0 /\ DeployTurn /\ dResp'.present /\ dResp'.Status # "Ready"
           /\ ~dFetchThrew' /\ HasFatalOrError(pFeed'))
          => /\ dPolls' = 1
             /\ dFetched' = 1
             /\ describeRecentEvents(EventAnswer(dFetchThrew', pFeed')).logged = pFeed'
             /\ dPc' = "thrown"
             /\ dThrown' = <<"Environment deployment failed - fatal or error event detected:",
                            pFeed'[FirstFatalOrErrorAt(pFeed')].Message>>]_vars

\* the case: the first poll shows 'Launching', a fresh INFO event and a FATAL
\* event of the oldest date
C36_Witness ==
    /\ dPolls = 1
    /\ dResp.Status = "Launching"
    /\ pFeed = <<[EventDate |-> MaxEventDate, Severity |-> "INFO", Message |-> "m1"],
                 [EventDate |-> 1, Severity |-> "FATAL", Message |-> "m-old"]>>
    /\ dPc = "thrown"
    /\ dThrown = FailedEventError("m-old")

(***************************************************************************)
(* C37: both watchers terminate, and the timeout bounds their polls        *)
(***************************************************************************)
\* the two watchers one after the other; every await of the loops settles
\* (each remote call returns, each setTimeout fires), so a watcher that can
\* take its next step does take it
SpecBudgetLive == SpecBudget /\ WF_vars(BudgetNext)

\* the least whole number of `step`s that covers `span`
CeilDiv(span, step) == (span + step - 1) \div step

\* the sleep the claim gives the deployment watcher (milliseconds)
ClaimedDeploySleep == IF dAction = "create" THEN 20000 ELSE 10000

\* C37: provided every remote call returns, both watchers terminate by a
\* return or a throw; a turn that goes on to another turn lasts the calls'
\* time plus a sleep of 20 s (create) or 10 s (update, unspecified) in the
\* deployment watcher and of 15 s in the health watcher, so the status polls
\* number at most ceil(timeout / pollInterval), and no poll starts once the
\* elapsed time has reached the timeout.
C37_WatchersTerminate ==
    /\ [](dPolls <= CeilDiv(dTimeout * 1000, ClaimedDeploySleep))
    /\ [](hPc # "off" => hPolls <= CeilDiv(hTimeout * 1000, 15000))
    /\ [][DeployTurn =>
             /\ dNow < dTimeout * 1000
             /\ dPc' = "poll" => (dNow' - dNow - ClaimedDeploySleep) \in CallLatencies]_vars
    /\ [][HealthTurn =>
             /\ hNow < hTimeout * 1000
             /\ hPc' = "poll" => (hNow' - hNow - 15000) \in CallLatencies]_vars
    /\ <>(dPc \in {"returned", "thrown", "done"})
    /\ [](hPc = "poll" => <>(hPc \in {"returned", "thrown"}))

\* the health watcher ran out of time after the most polls its timeout
\* allows, behind a deployment watcher that returned
C37_Witness ==
    /\ dPc = "done"
    /\ hPc = "thrown"
    /\ hThrown = HealthTimeoutError(hTimeout)
    /\ hPolls = CeilDiv(hTimeout * 1000, 15000)

(***************************************************************************)
(* C38: the invariant of retryWithBackoff                                  *)
(***************************************************************************)
\* the invocations of fn so far that failed with an attempt index below maxRetries
FailedBeforeLast == {i \in 1..calls : ~plan[i].ok /\ i < maxRetries}

\* what the claim says of the invocations, the sleeps and the warnings,
\* with `most` the greatest number of sleeps
RetryInvariant(most) ==
    /\ calls <= maxRetries
    \* never again after a success: a success is the last invocation, and
    \* the function has returned with it
    /\ \A i \in 1..calls : plan[i].ok => (i = calls /\ rPc = "returned")
    /\ Len(sleeps) = Cardinality(FailedBeforeLast)
    /\ Len(sleeps) <= most
    \* one warning with each sleep, of the same attempt
    /\ Len(warnings) = Len(sleeps)
    /\ \A i \in 1..Len(sleeps) :
          /\ sleeps[i].after \in FailedBeforeLast
          /\ warnings[i].attempt = sleeps[i].after
          /\ \A j \in 1..Len(sleeps) : sleeps[j].after = sleeps[i].after => j = i

\* C38 as stated: in every state of a retryWithBackoff execution fn has been
\* invoked at most maxRetries times and not again after a success, the
\* sleeps are as many as the failed attempts with index < maxRetries, hence
\* at most maxRetries - 1, and each sleep has its one warning.
C38_AsClaimed == RetryInvariant(maxRetries - 1)

\* C38: the same, the sleeps being at most maxRetries - 1 when maxRetries
\* is at least 1 and none when maxRetries is 0.
C38_RetryInvariant ==
    RetryInvariant(IF maxRetries = 0 THEN 0 ELSE maxRetries - 1)

\* an execution that slept after every attempt but the last and then succeeded
C38_Witness ==
    /\ rPc = "returned"
    /\ maxRetries = MaxRetriesTried
    /\ calls = maxRetries
    /\ Len(sleeps) = maxRetries - 1
    /\ Len(warnings) = maxRetries - 1

(***************************************************************************)
(* C39: the outcomes of the watchers                                       *)
(***************************************************************************)
\* the step ends the deployment watcher
DeployEnds == dPc = "poll" /\ dPc' # "poll"

\* the step ends the health watcher
HealthEnds == hPc = "poll" /\ hPc' # "poll"

\* C39: waitForDeploymentCompletion returns only when its most recent status
\* query answered 'Ready', waitForHealthRecovery only when its most recent
\* query answered health Green or Yellow, and a watcher that ends in any
\* other way ends by throwing an error.
C39_OutcomesSound ==
    [][/\ DeployEnds =>
            \/ /\ dPc' = "returned"
               /\ dThrown' = <<>>
               /\ dResp'.present /\ ~dResp'.throws /\ dResp'.Status = "Ready"
            \/ /\ dPc' = "thrown"
               /\ dThrown' # <<>>
       /\ HealthEnds =>
            \/ /\ hPc' = "returned"
               /\ hThrown' = <<>>
               /\ hResp'.present /\ ~hResp'.throws /\ hResp'.Health \in {"Green", "Yellow"}
            \/ /\ hPc' = "thrown"
               /\ hThrown' # <<>>]_vars

\* the deployment watcher returned on 'Ready' after a poll that was not, and
\* the health watcher then returned on Yellow after a poll that was not good
C39_Witness ==
    /\ dPc = "done"
    /\ dPolls >= 2
    /\ dResp.Status = "Ready"
    /\ hPc = "returned"
    /\ hPolls >= 2
    /\ hResp.Health = "Yellow"

(***************************************************************************)
(* C40: polls that find no environment                                     *)
(***************************************************************************)
\* a platform that shows an ERROR or a FATAL event whenever it is asked
FailingFeeds == {feed \in PlainFeeds : \E i \in 1..Len(feed) : IsFatalOrError(feed[i])}

\* what a step of the deployment watcher did: the answer of its status
\* query ("none" in the step that leaves the loop) and whether it called
\* describeRecentEvents
StepRecord(query, fetched) == [query |-> query, fetched |-> fetched]

\* how the status query of the step was answered
QueryRecord(resp) ==
    IF resp.throws THEN "threw" ELSE IF resp.present THEN resp.Status ELSE "absent"

\* waitForDeploymentCompletion of monitoring.ts on that platform, with what
\* each of its steps did on record
DeployAbsentNext ==
    \/ DeployPoll(FailingFeeds)
         /\ dSeen' = Append(dSeen, StepRecord(QueryRecord(dResp'), dFetched'))
         /\ UNCHANGED <<dReported, hReported>>
    \/ DeployTimeout(FailingFeeds)
         /\ dSeen' = Append(dSeen, StepRecord("none", dFetched'))
         /\ UNCHANGED <<dReported, hReported>>

SpecDeployAbsent == InitDeploy /\ [][DeployAbsentNext]_vars

\* every status query so far was answered without an environment
AbsentOnEveryPoll ==
    \A i \in 1..Len(dSeen) : dSeen[i].query \in {"absent", "none"}

\* the calls of describeRecentEvents so far
EventFetches == Cardinality({i \in 1..Len(dSeen) : dSeen[i].fetched = 1})

\* C40: a turn of the deployment watcher whose status query is answered
\* without an environment record calls describeRecentEvents not at all,
\* logs nothing and does not fail: it sleeps the poll interval and the
\* watcher polls again. A watcher that has ended after polls all answered
\* so has thrown the timeout error after one call of describeRecentEvents,
\* its last step, though the platform showed ERROR or FATAL events all along.
C40_AbsentEnvironmentOnlyWaits ==
    [][/\ (DeployTurn /\ QueryRecord(dResp') = "absent") =>
            /\ dFetched' = 0
            /\ dLog' = dLog
            /\ dPrevStatus' = dPrevStatus
            /\ dPc' = "poll"
            /\ dThrown' = <<>>
            /\ (dNow' - dNow - ClaimedDeploySleep) \in CallLatencies
       /\ (DeployEnds /\ AbsentOnEveryPoll') =>
            /\ dPc' = "thrown"
            /\ dThrown' = DeploymentTimeoutError(dTimeout)
            /\ EventFetches' = 1
            /\ dSeen'[Len(dSeen')] = StepRecord("none", 1)
            /\ \E i \in 1..Len(pFeed') : IsFatalOrError(pFeed'[i])]_vars

\* the watcher timed out after three polls, none of which found the
\* environment, on a platform showing a FATAL event
C40_Witness ==
    /\ dPc = "thrown"
    /\ dPolls >= 3
    /\ AbsentOnEveryPoll
    /\ dThrown = DeploymentTimeoutError(dTimeout)
    /\ dLog = <<WaitingLine>>
    /\ \E i \in 1..Len(pFeed) : pFeed[i].Severity = "FATAL"

====
